---- MODULE Spec2Model ----
(***************************************************************************)
(* Transactional storage core of memgraph: the single node transaction     *)
(* engine (src/src/query/interpreter.hpp, tx::SingleNodeEngine), the       *)
(* storage accessor (src/src/database/graph_db_accessor.cpp) and the       *)
(* durability recovery (src/src/durability/recovery.cpp).                  *)
(*                                                                         *)
(* The MVCC record layer (mvcc::Record, mvcc::VersionList, RecordAccessor),*)
(* the gid generator and StateDelta::Apply are not part of the sources at  *)
(* hand; they are modelled from the specification (sections 4.1, 4.4, 5,   *)
(* 7 and 8) and are marked as such where they are defined.                 *)
(*                                                                         *)
(* Further: WorkerCoordination::WaitForShutdown                            *)
(* (src/src/distributed/coordination_worker.cpp), Timer and TimerSet       *)
(* (src/unnamed/part_000) and Properties                                   *)
(* (src/storage/model/properties/properties.hpp).                          *)
(***************************************************************************)
EXTENDS Integers, Sequences, FiniteSets, TLC

\* ---------------------------------------------------------------- bounds
MaxTx == 3         \* transactions begun by the live database
MaxAccessors == 2  \* accessors alive at the same time
MaxCmd == 2        \* highest command id reached with AdvanceCommand
MaxVertex == 1     \* vertices inserted by the live database
MaxEdge == 1       \* edges inserted by the live database
MaxWal == 7        \* deltas in the WAL after which the live database stops
MaxThreads == 2    \* threads calling the engine at the same time
CommandIdMax == 2  \* std::numeric_limits<command_id_t>::max(), scaled down
MaxCounter == 2    \* highest value given to the named counter

NONE == 0 - 1      \* "no gid" / std::experimental::nullopt

VARIABLES
  counter_,            \* SingleNodeEngine::counter_
  active_,             \* SingleNodeEngine::active_ (a tx::Snapshot)
  clog_,               \* SingleNodeEngine::clog_
  store_,              \* SingleNodeEngine::store_ : id -> Transaction
  wal_,                \* durability::WriteAheadLog, the deltas in append order
  vertices_,           \* GraphDb::vertices_ : gid -> VersionList<Vertex>
  edges_,              \* GraphDb::edges_ : gid -> VersionList<Edge>
  vertex_generator_,   \* GraphDb::vertex_generator_, next local id
  edge_generator_,     \* GraphDb::edge_generator_, next local id
  counters_,           \* GraphDb::counters_ : name -> value
  accessors,           \* live GraphDbAccessor objects: tx id -> flags
  recovered,           \* result of durability::Recover after a restart
  dir,                 \* the durability directory read by Recover
  lock_,               \* SingleNodeEngine::lock_ : the thread holding it, 0: free
  threads,             \* the threads calling the engine: position and locals
  begins,              \* history: the Begin calls in the order they took lock_
  applied,             \* history: the changes of active_ in the order applied
  notified,            \* history: the notifications the listeners received
  label_property_index_,        \* GraphDb::label_property_index_ : key -> index
  index_build_tx_in_progress_,  \* GraphDb::index_build_tx_in_progress_
  builds,              \* the BuildIndex calls in progress: tx id -> locals
  mapper_counter_,     \* NameIdMapper::counter_
  name_to_id_,         \* NameIdMapper::name_to_id_ : name -> id
  id_to_name_,         \* NameIdMapper::id_to_name_ : id -> name
  skiplist,            \* the concurrent set of the set test
  returned,            \* history: what the finished calls returned, in order
  mutex,               \* WaitForShutdown's std::mutex: the thread holding it, 0: free
  cv,                  \* WaitForShutdown's condition variable: the threads blocked on it
  shutdown,            \* WaitForShutdown's flag
  waiter,              \* the position of the thread that called WaitForShutdown
  timers,              \* TimerSet::timers: the timers in the set
  timer_objects,       \* the Timer objects the shared pointers point to
  props                \* Properties::props : key -> Property::sptr

dbVars == <<counter_, active_, clog_, store_, wal_, vertices_, edges_,
            vertex_generator_, edge_generator_, counters_>>
engVars == <<lock_, threads, begins, applied, notified>>
idxVars == <<label_property_index_, index_build_tx_in_progress_, builds>>
mapVars == <<mapper_counter_, name_to_id_, id_to_name_>>
miscVars == <<mutex, cv, shutdown, waiter, timers, timer_objects, props>>
auxVars == <<idxVars, mapVars, skiplist, returned, miscVars>>
vars == <<counter_, active_, clog_, store_, wal_, vertices_, edges_,
          vertex_generator_, edge_generator_, counters_, accessors, recovered,
          dir, lock_, threads, begins, applied, notified,
          label_property_index_, index_build_tx_in_progress_, builds,
          mapper_counter_, name_to_id_, id_to_name_, skiplist, returned,
          mutex, cv, shutdown, waiter, timers, timer_objects, props>>

\* ------------------------------------------------------------- utilities
Min(S) == CHOOSE x \in S : \A y \in S : x <= y
Max(S) == CHOOSE x \in S : \A y \in S : x >= y
Erase(f, k) == [x \in (DOMAIN f) \ {k} |-> f[x]]
Range(s) == {s[i] : i \in DOMAIN s}

\* database::StateDelta, one WAL entry
Delta(type, tx, gid, from, to) ==
  [type |-> type, tx |-> tx, gid |-> gid, from |-> from, to |-> to]

\* The whole GraphDb (with its engine) as one value, so that the accessor
\* operations below are used both by the live database and by recovery.
DB == [counter |-> counter_, active |-> active_, clog |-> clog_,
       store |-> store_, wal |-> wal_, vertices |-> vertices_,
       edges |-> edges_, vgen |-> vertex_generator_,
       egen |-> edge_generator_, counters |-> counters_]

EmptyDb == [counter |-> 0, active |-> {}, clog |-> <<>>, store |-> <<>>,
            wal |-> <<>>, vertices |-> <<>>, edges |-> <<>>,
            vgen |-> 0, egen |-> 0, counters |-> <<>>]

SetDB(d) ==
  /\ counter_' = d.counter
  /\ active_' = d.active
  /\ clog_' = d.clog
  /\ store_' = d.store
  /\ wal_' = d.wal
  /\ vertices_' = d.vertices
  /\ edges_' = d.edges
  /\ vertex_generator_' = d.vgen
  /\ edge_generator_' = d.egen
  /\ counters_' = d.counters

\* ------------------------------------------------- tx::SingleNodeEngine
\* CommitLog::fetch_info: a transaction that was never marked is active.
Info(db, id) == IF id \in DOMAIN db.clog THEN db.clog[id] ELSE "active"

\* Faulty variant: the snapshot of the new transaction is left empty.
EngineBeginNoSnapshot(db) ==
  LET id == db.counter + 1 IN
  [db EXCEPT !.counter = id,
             !.store = (id :> [id |-> id, snapshot |-> {}, cid |-> 1]) @@ db.store,
             !.active = db.active \cup {id},
             !.wal = Append(db.wal, Delta("TxBegin", id, NONE, NONE, NONE))]

EngineBegin(db) ==
  LET id == db.counter + 1 IN
  [db EXCEPT !.counter = id,
             !.store = (id :> [id |-> id, snapshot |-> db.active, cid |-> 1]) @@ db.store,
             !.active = db.active \cup {id},
             !.wal = Append(db.wal, Delta("TxBegin", id, NONE, NONE, NONE))]

EngineAdvance(db, id) == [db EXCEPT !.store[id].cid = @ + 1]

\* Faulty variant: the committed transaction stays in the active set.
EngineCommitStaysActive(db, id) ==
  [db EXCEPT !.clog = (id :> "committed") @@ db.clog,
             !.wal = Append(db.wal, Delta("TxCommit", id, NONE, NONE, NONE)),
             !.store = Erase(db.store, id)]

EngineCommit(db, id) ==
  [db EXCEPT !.clog = (id :> "committed") @@ db.clog,
             !.active = db.active \ {id},
             !.wal = Append(db.wal, Delta("TxCommit", id, NONE, NONE, NONE)),
             !.store = Erase(db.store, id)]

\* Faulty variant: the aborted transaction is marked committed in the commit log.
EngineAbortMarksCommitted(db, id) ==
  [db EXCEPT !.clog = (id :> "committed") @@ db.clog,
             !.active = db.active \ {id},
             !.wal = Append(db.wal, Delta("TxAbort", id, NONE, NONE, NONE)),
             !.store = Erase(db.store, id)]

EngineAbort(db, id) ==
  [db EXCEPT !.clog = (id :> "aborted") @@ db.clog,
             !.active = db.active \ {id},
             !.wal = Append(db.wal, Delta("TxAbort", id, NONE, NONE, NONE)),
             !.store = Erase(db.store, id)]

\* ------------------------------------------------------------------ MVCC
\* mvcc::Record / mvcc::VersionList / RecordAccessor.  Their sources are not
\* at hand: modelled from the specification, section 4.1 (visibility rule,
\* update, remove), section 5 (version-chain writes), section 7
\* (SerializationError) and scenario 3 of section 8 (a creator that began
\* after the reader is never visible to it).
\* A version list is a sequence of versions, newest first.  A transaction
\* creates at most one version per list (new-new coalesce), so `prev` names
\* the version a version was cloned from by that version's creator (0: none).
NewVersion(t, c, prev, data) ==
  [cre |-> t, cmd_cre |-> c, exp |-> 0, cmd_exp |-> 0, prev |-> prev,
   data |-> data]

\* Transaction `id` committed before the reader `t` began.
VisibleFrom(db, id, t) ==
  /\ id < t
  /\ id \notin db.store[t].snapshot
  /\ Info(db, id) = "committed"

\* Faulty variant: a transaction sees of its own versions only those of its
\* current command.
CreVisibleSameCommand(db, v, t) ==
  \/ (v.cre = t /\ v.cmd_cre = db.store[t].cid)
  \/ VisibleFrom(db, v.cre, t)

\* Clause 1 of the visibility rule: the creation stamp.
CreVisible(db, v, t) ==
  \/ (v.cre = t /\ v.cmd_cre <= db.store[t].cid)
  \/ VisibleFrom(db, v.cre, t)

\* Clause 2 of the visibility rule: the expiration stamp.
ExpVisible(db, v, t) ==
  \/ v.exp = 0
  \/ (v.exp = t /\ v.cmd_exp > db.store[t].cid)
  \/ (v.exp # t /\ ~VisibleFrom(db, v.exp, t))

Visible(db, v, t) == CreVisible(db, v, t) /\ ExpVisible(db, v, t)

\* VersionList::find: position of the version visible to t, 0 when none.
FindIdx(db, vl, t) ==
  LET S == {i \in 1..Len(vl) : Visible(db, vl[i], t)}
  IN IF S = {} THEN 0 ELSE Min(S)

\* RecordAccessor::new_: the version t itself created (always the head).
NewIdx(vl, t) == IF Len(vl) > 0 /\ vl[1].cre = t THEN 1 ELSE 0

\* RecordAccessor::old_: the version t sees when its own expiration of it is
\* left aside (an accessor obtained before t removed the record keeps it).
OldIdx(db, vl, t) ==
  LET S == {i \in 1..Len(vl) :
              /\ vl[i].cre # t
              /\ CreVisible(db, vl[i], t)
              /\ (vl[i].exp = t \/ ExpVisible(db, vl[i], t))}
  IN IF S = {} THEN 0 ELSE Min(S)

\* RecordAccessor::SwitchNew followed by current(): new_ if present, else old_.
CurIdx(db, vl, t) == IF NewIdx(vl, t) # 0 THEN 1 ELSE OldIdx(db, vl, t)

\* RecordAccessor::Visible(t, current_state): some version of the list is
\* visible to t; the current-state view also hides what t itself expired.
RecordVisible(db, vl, t, current_state) ==
  \E i \in 1..Len(vl) :
    /\ Visible(db, vl[i], t)
    /\ ~(current_state /\ vl[i].exp = t)

\* VersionList::lock_and_validate: the target is free, or its expiring
\* transaction aborted; otherwise another transaction got there first.
Validate(db, v) == v.exp = 0 \/ Info(db, v.exp) = "aborted"

\* VersionList::update on behalf of t, o being the version t sees.
\* [res, vl]: vl has t's version at its head when res = "ok".
VlUpdateAt(db, vl, t, o) ==
  IF NewIdx(vl, t) # 0
    THEN [res |-> IF vl[1].exp = t THEN "RecordDeletedError" ELSE "ok",
          vl |-> vl]
  ELSE IF o = 0 \/ vl[o].exp = t
    THEN [res |-> "RecordDeletedError", vl |-> vl]
  ELSE IF ~Validate(db, vl[o])
    THEN [res |-> "SerializationError", vl |-> vl]
  ELSE [res |-> "ok",
        vl |-> <<NewVersion(t, db.store[t].cid, vl[o].cre, vl[o].data)>> \o
               [vl EXCEPT ![o].exp = t, ![o].cmd_exp = db.store[t].cid]]

VlUpdate(db, vl, t) == VlUpdateAt(db, vl, t, OldIdx(db, vl, t))

\* VersionList::remove of the version at position i on behalf of t.
VlRemove(db, vl, i, t) ==
  IF ~Validate(db, vl[i])
    THEN [res |-> "SerializationError", vl |-> vl]
    ELSE [res |-> "ok",
          vl |-> [vl EXCEPT ![i].exp = t, ![i].cmd_exp = db.store[t].cid]]

\* gid::Generator::Next(requested): modelled from the specification (local
\* ids increase monotonically; an explicit id moves the generator past it).
GenNext(gen, requested) ==
  IF requested = NONE
    THEN [id |-> gen, gen |-> gen + 1]
    ELSE [id |-> requested, gen |-> IF gen > requested THEN gen ELSE requested + 1]

\* -------------------------------------------------------- GraphDbAccessor
\* Each operation takes the database and the accessor's transaction id and
\* yields [db, res]: the database afterwards and the result or the error
\* raised.
Ret(db, res) == [db |-> db, res |-> res]

\* An operation is a sequence of steps: each step below takes the outcome r
\* of the step before it, and an error of that step (an exception, a failed
\* CHECK, an early return) ends the operation.

VertexData(out, in) == [out |-> out, in |-> in, from |-> NONE, to |-> NONE]
EdgeData(from, to) == [out |-> {}, in |-> {}, from |-> from, to |-> to]

InsertVertexAt(db, t, g) ==
  IF g.id \in DOMAIN db.vertices
    THEN Ret([db EXCEPT !.vgen = g.gen], "CHECK failed")
    ELSE Ret([db EXCEPT
                !.vgen = g.gen,
                !.vertices = (g.id :> <<NewVersion(t, db.store[t].cid, 0,
                                                   VertexData({}, {}))>>)
                               @@ db.vertices,
                !.wal = Append(db.wal, Delta("CreateVertex", t, g.id, NONE, NONE))],
             "ok")

InsertVertex(db, t, gid) == InsertVertexAt(db, t, GenNext(db.vgen, gid))

\* Faulty variant: the record is found without the test of its visibility.
FindVertexUntested(db, t, gid, current_state) == gid \in DOMAIN db.vertices

FindVertex(db, t, gid, current_state) ==
  /\ gid \in DOMAIN db.vertices
  /\ RecordVisible(db, db.vertices[gid], t, current_state)

FindEdge(db, t, gid, current_state) ==
  /\ gid \in DOMAIN db.edges
  /\ RecordVisible(db, db.edges[gid], t, current_state)

\* GraphDbAccessor::Vertices(current_state): the gids of the visible vertices
Vertices(db, t, current_state) ==
  {g \in DOMAIN db.vertices : RecordVisible(db, db.vertices[g], t, current_state)}

\* The version u.vl[1] that update() returned gets its adjacency changed.
UpdateVertexWith(db, v, u, addOut, addIn, delOut, delIn) ==
  IF u.res # "ok" THEN Ret(db, u.res)
  ELSE Ret([db EXCEPT !.vertices[v] =
              [u.vl EXCEPT ![1].data =
                 [@ EXCEPT !.out = (@ \cup addOut) \ delOut,
                           !.in = (@ \cup addIn) \ delIn]]],
           "ok")

\* vertex.update().out_.emplace(...) / in_.emplace(...) / RemoveEdge(...)
UpdateVertex(db, t, v, addOut, addIn, delOut, delIn) ==
  UpdateVertexWith(db, v, VlUpdate(db, db.vertices[v], t),
                   addOut, addIn, delOut, delIn)

\* db_.wal_.Emplace(StateDelta::CreateEdge(...))
InsertEdgeLog(r, t, from, to, g) ==
  IF r.res # "ok" THEN r
  ELSE Ret([r.db EXCEPT !.wal =
              Append(r.db.wal, Delta("CreateEdge", t, g.id, from, to))],
           "ok")

\* Faulty variant: `to` is not updated when it is the vertex `from` is.
InsertEdgeToUnlessCycle(r, t, from, to, g) ==
  IF r.res # "ok" THEN r
  ELSE IF from = to THEN InsertEdgeLog(r, t, from, to, g)
  ELSE InsertEdgeLog(UpdateVertex(r.db, t, to, {}, {g.id}, {}, {}),
                     t, from, to, g)

\* to.SwitchNew(); to.update().in_.emplace(...)
InsertEdgeTo(r, t, from, to, g) ==
  IF r.res # "ok" THEN r
  ELSE InsertEdgeLog(UpdateVertex(r.db, t, to, {}, {g.id}, {}, {}),
                     t, from, to, g)

\* InsertEdge from db_.edges_.access().insert on; first
\* from.SwitchNew(); from.update().out_.emplace(...)
InsertEdgeAt(db, t, from, to, g) ==
  IF g.id \in DOMAIN db.edges
    THEN Ret([db EXCEPT !.egen = g.gen], "CHECK failed")
    ELSE InsertEdgeTo(
           UpdateVertex(
             [db EXCEPT
                !.egen = g.gen,
                !.edges = (g.id :> <<NewVersion(t, db.store[t].cid, 0,
                                                EdgeData(from, to))>>)
                            @@ db.edges],
             t, from, {g.id}, {}, {}, {}),
           t, from, to, g)

InsertEdge(db, t, from, to, gid) ==
  InsertEdgeAt(db, t, from, to, GenNext(db.egen, gid))

\* vlist->remove(current_, transaction) of an edge, then the RemoveEdge delta
ExpireEdge(db, t, e, rm) ==
  IF rm.res # "ok" THEN Ret(db, rm.res)
  ELSE Ret([db EXCEPT !.edges[e] = rm.vl,
                      !.wal = Append(db.wal, Delta("RemoveEdge", t, e, NONE, NONE))],
           "ok")

\* edge_accessor.address().local()->remove(...) and the delta
RemoveEdgeExpire(r, t, e, i) ==
  IF r.res # "ok" THEN r
  ELSE ExpireEdge(r.db, t, e, VlRemove(r.db, r.db.edges[e], i, t))

\* if (remove_from_to) edge_accessor.to().update().in_.RemoveEdge(...)
RemoveEdgeFromTo(r, t, e, i, cur, remove_from_to) ==
  IF r.res # "ok" THEN r
  ELSE RemoveEdgeExpire(
         IF remove_from_to
           THEN UpdateVertex(r.db, t, cur.data.to, {}, {}, {}, {e})
           ELSE r,
         t, e, i)

\* RemoveEdge after edge_accessor.SwitchNew(): cur is the current version;
\* first if (remove_from_from) edge_accessor.from().update().out_.RemoveEdge
RemoveEdgeCur(db, t, e, i, cur, remove_from_from, remove_from_to) ==
  IF cur.exp = t THEN Ret(db, "ok")
  ELSE RemoveEdgeFromTo(
         IF remove_from_from
           THEN UpdateVertex(db, t, cur.data.from, {}, {}, {e}, {})
           ELSE Ret(db, "ok"),
         t, e, i, cur, remove_from_to)

RemoveEdgeAt(db, t, e, i, remove_from_from, remove_from_to) ==
  RemoveEdgeCur(db, t, e, i, db.edges[e][i], remove_from_from, remove_from_to)

RemoveEdge(db, t, e, remove_from_from, remove_from_to) ==
  RemoveEdgeAt(db, t, e, CurIdx(db, db.edges[e], t),
               remove_from_from, remove_from_to)

\* vlist->remove(current_, transaction) of a vertex
ExpireVertex(db, v, rm, res) ==
  IF rm.res # "ok" THEN Ret(db, rm.res)
  ELSE Ret([db EXCEPT !.vertices[v] = rm.vl], res)

\* wal_.Emplace(StateDelta::RemoveVertex(...))
LogRemoveVertex(db, t, v) ==
  [db EXCEPT !.wal = Append(db.wal, Delta("RemoveVertex", t, v, NONE, NONE))]

\* Faulty variant: the current version is marked expired directly, not through
\* VersionList::remove, so nothing checks who expired it before.
RemoveVertexUnvalidated(db, t, v, i, cur) ==
  IF cur.exp = t THEN Ret(db, "true")
  ELSE IF cur.data.out # {} \/ cur.data.in # {} THEN Ret(db, "false")
  ELSE Ret([LogRemoveVertex(db, t, v) EXCEPT
              !.vertices[v][i].exp = t,
              !.vertices[v][i].cmd_exp = db.store[t].cid],
           "true")

\* Faulty variant: the degrees of the vertex are not looked at.
RemoveVertexIgnoresEdges(db, t, v, i, cur) ==
  IF cur.exp = t THEN Ret(db, "true")
  ELSE ExpireVertex(LogRemoveVertex(db, t, v), v,
                    VlRemove(db, db.vertices[v], i, t), "true")

\* RemoveVertex after vertex_accessor.SwitchNew(): cur is the current version.
\* The delta is appended before the version is expired.
RemoveVertexCur(db, t, v, i, cur) ==
  IF cur.exp = t THEN Ret(db, "true")
  ELSE IF cur.data.out # {} \/ cur.data.in # {} THEN Ret(db, "false")
  ELSE ExpireVertex(LogRemoveVertex(db, t, v), v,
                    VlRemove(db, db.vertices[v], i, t), "true")

RemoveVertexAt(db, t, v, i) == RemoveVertexCur(db, t, v, i, db.vertices[v][i])

RemoveVertex(db, t, v) == RemoveVertexAt(db, t, v, CurIdx(db, db.vertices[v], t))

\* for (auto edge_accessor : ...) RemoveEdge(edge_accessor, from, to); an
\* error ends the loop
RECURSIVE RemoveEdges(_, _, _, _, _)
RemoveEdgesNext(r, t, es, remove_from_from, remove_from_to) ==
  IF r.res # "ok" THEN r
  ELSE RemoveEdges(r.db, t, es, remove_from_from, remove_from_to)

RemoveEdges(db, t, es, remove_from_from, remove_from_to) ==
  IF es = {} THEN Ret(db, "ok")
  ELSE RemoveEdgesNext(
         RemoveEdge(db, t, Min(es), remove_from_from, remove_from_to),
         t, es \ {Min(es)}, remove_from_from, remove_from_to)

\* vertex_accessor.SwitchNew(); vertex_accessor.current()
CurVertex(db, t, v) == db.vertices[v][CurIdx(db, db.vertices[v], t)]

\* Faulty variant: the vertex is removed without the test of is_expired_by.
DetachExpireUntested(db, t, v, i) ==
  ExpireVertex(db, v, VlRemove(db, db.vertices[v], i, t), "ok")

\* The end of DetachRemoveVertex; unlike RemoveVertex, the code appends no
\* RemoveVertex delta.
DetachExpire(db, t, v, i) ==
  IF db.vertices[v][i].exp = t THEN Ret(db, "ok")
  ELSE ExpireVertex(db, v, VlRemove(db, db.vertices[v], i, t), "ok")

\* vertex_accessor.SwitchNew(); if (!current().is_expired_by(...)) remove
DetachVertex(r, t, v) ==
  IF r.res # "ok" THEN r
  ELSE DetachExpire(r.db, t, v, CurIdx(r.db, r.db.vertices[v], t))

\* vertex_accessor.SwitchNew(); for (... : vertex_accessor.out()) RemoveEdge
DetachOut(r, t, v) ==
  IF r.res # "ok" THEN r
  ELSE DetachVertex(
         RemoveEdges(r.db, t, CurVertex(r.db, t, v).data.out, FALSE, TRUE),
         t, v)

\* first vertex_accessor.SwitchNew(); for (... : vertex_accessor.in()) RemoveEdge
DetachRemoveVertex(db, t, v) ==
  DetachOut(RemoveEdges(db, t, CurVertex(db, t, v).data.in, TRUE, FALSE), t, v)

\* ------------------------------------------------------------- recovery
\* The durability directory: [snapshots, wal].  snapshots and wal are the
\* files sorted by name (oldest first).
\* A snapshot file: [fault, vgen, egen, tx_id, tx_snapshot, vertices, edges]
\*   fault: "none", or what is wrong with the file: "magic", "version",
\*   "vertex" (the last vertex record is undecodable), "edge" (the last edge
\*   record is undecodable) or "hash" (the stored hash does not match).
\* A WAL file: [max_tx, deltas]; a delta that StateDelta::Decode cannot
\*   decode (truncated, unknown tag) is the entry Undecodable.
Undecodable == Delta("undecodable", 0, NONE, NONE, NONE)

\* struct RecoveryData after construction / Clear()
EmptyRecoveryData ==
  [snapshooter_tx_id |-> 0, snapshooter_tx_snapshot |-> <<>>, indexes |-> <<>>]

\* State threaded through recovery: the database, the recovery data, the
\* accessors of RecoverWal (WAL tx id -> tx id in this database), the WAL
\* positions <<file, index>> whose delta was applied, and whether the process
\* died (a failed CHECK or an exception nobody catches).  replayed keeps,
\* for the properties, the accessor each replayed WAL transaction had.
RecState(db, rd) ==
  [db |-> db, rd |-> rd, acc |-> <<>>, replayed |-> <<>>, applied |-> {},
   fatal |-> FALSE, snapshot_ok |-> FALSE]

\* for (i < vertex_count) dba.InsertVertex(vertex.id): [db, res]
RECURSIVE InsertSnapshotVertices(_, _, _, _)
InsertSnapshotVerticesNext(r, t, vs, i) ==
  IF r.res # "ok" THEN r ELSE InsertSnapshotVertices(r.db, t, vs, i)

InsertSnapshotVertices(db, t, vs, i) ==
  IF i > Len(vs) THEN Ret(db, "ok")
  ELSE InsertSnapshotVerticesNext(InsertVertex(db, t, vs[i]), t, vs, i + 1)

\* for (i < edge_count) dba.InsertEdge(from, to, type, edge.id): [db, res]
\* res = "return false" when an endpoint is not among the file's vertices.
RECURSIVE InsertSnapshotEdges(_, _, _, _, _)
InsertSnapshotEdgesNext(r, t, vs, es, i) ==
  IF r.res # "ok" THEN r ELSE InsertSnapshotEdges(r.db, t, vs, es, i)

InsertSnapshotEdges(db, t, vs, es, i) ==
  IF i > Len(es) THEN Ret(db, "ok")
  ELSE IF es[i].from \notin Range(vs) \/ es[i].to \notin Range(vs)
    THEN Ret(db, "return false")
  ELSE InsertSnapshotEdgesNext(
         InsertEdge(db, t, es[i].from, es[i].to, es[i].gid), t, vs, es, i + 1)

\* The records of a file that decode: all, or all but the last.
Decodable(records, broken) ==
  IF broken THEN SubSeq(records, 1, Len(records) - 1) ELSE records

\* The end of RecoverSnapshot: re is the outcome of the edge loop.
SnapshotEdgesDone(file, st, t, re) ==
  IF re.res = "return false"
    THEN [st EXCEPT !.db = EngineAbort(re.db, t), !.snapshot_ok = FALSE]
  ELSE IF re.res # "ok"
    THEN [st EXCEPT !.db = re.db, !.fatal = TRUE]
  ELSE IF file.fault \in {"edge", "hash"}
    THEN [st EXCEPT !.db = EngineAbort(re.db, t), !.snapshot_ok = FALSE]
  ELSE [st EXCEPT !.db = EngineCommit(re.db, t), !.snapshot_ok = TRUE]

\* RecoverSnapshot after the vertex loop: rv is the outcome of the loop.
SnapshotVerticesDone(file, st, t, rv) ==
  IF rv.res # "ok"
    THEN [st EXCEPT !.db = rv.db, !.fatal = TRUE]
  ELSE IF file.fault = "vertex"
    THEN [st EXCEPT !.db = EngineAbort(rv.db, t), !.snapshot_ok = FALSE]
  ELSE SnapshotEdgesDone(file, st, t,
         InsertSnapshotEdges(rv.db, t, file.vertices,
                             Decodable(file.edges, file.fault = "edge"), 1))

\* RecoverSnapshot from GraphDbAccessor dba(db) on: st.db has dba's
\* transaction as its newest.
SnapshotInsert(file, st) ==
  SnapshotVerticesDone(file, st, st.db.counter,
    InsertSnapshotVertices(st.db, st.db.counter,
                           Decodable(file.vertices, file.fault = "vertex"), 1))

\* RecoverSnapshot(snapshot_file, db, recovery_data): the state afterwards,
\* snapshot_ok the value returned.
RecoverSnapshot(file, st) ==
  IF file.fault \in {"magic", "version"}
    THEN [st EXCEPT !.snapshot_ok = FALSE]
    ELSE SnapshotInsert(file,
           [st EXCEPT
              !.rd.snapshooter_tx_id = file.tx_id,
              !.rd.snapshooter_tx_snapshot = file.tx_snapshot,
              !.db = EngineBegin(
                       [st.db EXCEPT
                          !.vgen = IF @ > file.vgen THEN @ ELSE file.vgen,
                          !.egen = IF @ > file.egen THEN @ ELSE file.egen])])

\* if (!RecoverSnapshot(...)) { recovery_data.Clear(); continue; } else break;
RECURSIVE RecoverSnapshots(_, _, _)
SnapshotTried(files, i, r) ==
  IF r.fatal \/ r.snapshot_ok THEN r
  ELSE RecoverSnapshots(files, i - 1, [r EXCEPT !.rd = EmptyRecoveryData])

\* The loop of Recover over the snapshot files, newest (last) first.
RecoverSnapshots(files, i, st) ==
  IF i = 0 \/ st.fatal THEN st
  ELSE SnapshotTried(files, i, RecoverSnapshot(files[i], st))

\* auto first_to_recover = tx_sn.empty() ? id + 1 : *std::min(begin, end):
\* std::min of the two iterators is begin(), the first element of the list.
FirstToRecover(rd) ==
  IF rd.snapshooter_tx_snapshot = <<>>
    THEN rd.snapshooter_tx_id + 1
    ELSE rd.snapshooter_tx_snapshot[1]

\* the lambda should_skip of RecoverWal
ShouldSkip(rd, tx_id) ==
  \/ tx_id < FirstToRecover(rd)
  \/ /\ tx_id < rd.snapshooter_tx_id
     /\ tx_id \notin Range(rd.snapshooter_tx_snapshot)

\* StateDelta::Apply(dba): modelled from the specification, section 4.4
\* ("other deltas are applied to the owning accessor"): [db, res].
Apply(db, t, delta) ==
  CASE delta.type = "CreateVertex" -> InsertVertex(db, t, delta.gid)
    [] delta.type = "CreateEdge" ->
         IF FindVertex(db, t, delta.from, TRUE) /\ FindVertex(db, t, delta.to, TRUE)
           THEN InsertEdge(db, t, delta.from, delta.to, delta.gid)
           ELSE Ret(db, "CHECK failed")
    [] delta.type = "RemoveVertex" ->
         IF FindVertex(db, t, delta.gid, TRUE)
           THEN RemoveVertex(db, t, delta.gid)
           ELSE Ret(db, "CHECK failed")
    [] delta.type = "RemoveEdge" ->
         IF FindEdge(db, t, delta.gid, TRUE)
           THEN RemoveEdge(db, t, delta.gid, TRUE, TRUE)
           ELSE Ret(db, "CHECK failed")
    [] OTHER -> Ret(db, "ok")

\* default: delta->Apply(get_accessor(...)); r is what Apply did.  An
\* exception leaves RecoverWal and nobody catches it.
Applied(st, pos, r) ==
  IF r.res \in {"ok", "true", "false"}
    THEN [st EXCEPT !.db = r.db, !.applied = @ \cup {pos}]
    ELSE [st EXCEPT !.db = r.db, !.fatal = TRUE]

\* case TRANSACTION_BEGIN: accessors.emplace(delta->transaction_id(), db)
ReplayBegin(st, tx, pos, begun) ==
  [st EXCEPT !.db = begun,
             !.acc = (tx :> begun.counter) @@ st.acc,
             !.replayed = (tx :> begun.counter) @@ st.replayed,
             !.applied = @ \cup {pos}]

\* One decoded delta of RecoverWal's switch, at WAL position pos.
ReplayDelta(st, delta, pos) ==
  IF ShouldSkip(st.rd, delta.tx) THEN st
  ELSE IF delta.type = "TxBegin"
    THEN IF delta.tx \in DOMAIN st.acc
           THEN [st EXCEPT !.fatal = TRUE]
           ELSE ReplayBegin(st, delta.tx, pos, EngineBegin(st.db))
  ELSE IF delta.tx \notin DOMAIN st.acc THEN [st EXCEPT !.fatal = TRUE]
  ELSE IF delta.type = "TxAbort"
    THEN [st EXCEPT !.db = EngineAbort(st.db, st.acc[delta.tx]),
                    !.acc = Erase(st.acc, delta.tx),
                    !.applied = @ \cup {pos}]
  ELSE IF delta.type = "TxCommit"
    THEN [st EXCEPT !.db = EngineCommit(st.db, st.acc[delta.tx]),
                    !.acc = Erase(st.acc, delta.tx),
                    !.applied = @ \cup {pos}]
  ELSE Applied(st, pos, Apply(st.db, st.acc[delta.tx], delta))

\* while (true) { delta = Decode(); if (!delta) break; ... } for one file
RECURSIVE ReplayFile(_, _, _, _)
ReplayFile(deltas, f, k, st) ==
  IF k > Len(deltas) \/ st.fatal THEN st
  ELSE IF deltas[k] = Undecodable THEN st
  ELSE ReplayFile(deltas, f, k + 1, ReplayDelta(st, deltas[k], <<f, k>>))

\* for (auto &wal_file : wal_files) of RecoverWal
RECURSIVE ReplayFiles(_, _, _)
ReplayFiles(files, f, st) ==
  IF f > Len(files) \/ st.fatal THEN st
  ELSE IF files[f].max_tx < FirstToRecover(st.rd)
    THEN ReplayFiles(files, f + 1, st)
    ELSE ReplayFiles(files, f + 1, ReplayFile(files[f].deltas, f, 1, st))

\* ~GraphDbAccessor of the accessors left in RecoverWal's map
RECURSIVE AbortAll(_, _)
AbortAll(db, ids) ==
  IF ids = {} THEN db
  ELSE AbortAll(EngineAbort(db, Min(ids)), ids \ {Min(ids)})

\* ~GraphDbAccessor, wrongly committing: what is left is committed
RECURSIVE CommitAll(_, _)
CommitAll(db, ids) ==
  IF ids = {} THEN db
  ELSE CommitAll(EngineCommit(db, Min(ids)), ids \ {Min(ids)})

\* Faulty variant: the accessors left in the map are committed, not aborted.
CloseAccessorsCommitting(st) ==
  IF st.fatal THEN st
  ELSE [st EXCEPT !.db = CommitAll(st.db, {st.acc[u] : u \in DOMAIN st.acc}),
                  !.acc = <<>>]

\* RecoverWal returns: the accessors left in its map are destroyed.
CloseAccessors(st) ==
  IF st.fatal THEN st
  ELSE [st EXCEPT !.db = AbortAll(st.db, {st.acc[u] : u \in DOMAIN st.acc}),
                  !.acc = <<>>]

RecoverWal(files, st) == CloseAccessors(ReplayFiles(files, 1, st))

\* GraphDbAccessor db_accessor_indices{db}; ...; db_accessor_indices.Commit()
CommitNewest(db) == EngineCommit(db, db.counter)

RecoverIndexes(st) ==
  IF st.fatal THEN st
  ELSE [st EXCEPT !.db = CommitNewest(EngineBegin(st.db))]

\* durability::Recover(durability_dir, db) on a fresh database
Recover(d) ==
  RecoverIndexes(
    RecoverWal(d.wal,
      RecoverSnapshots(d.snapshots, Len(d.snapshots),
                       RecState(EmptyDb, EmptyRecoveryData))))

\* ------------------------------------------------------ the live database
\* GraphDbAccessor after construction: commited_, aborted_; error is the
\* error an operation of it raised ("none": none so far), after which the
\* caller has to abort the transaction (specification, sections 4.2 and 7).
\* found: what the last FindVertex of the accessor returned ("none": not called).
NewAccessor ==
  [commited_ |-> FALSE, aborted_ |-> FALSE, error |-> "none", found |-> "none"]

Live == recovered = <<>> /\ Len(wal_) < MaxWal

\* DCHECK(!commited_ && !aborted_)
Usable(t) ==
  /\ t \in DOMAIN accessors
  /\ ~accessors[t].commited_
  /\ ~accessors[t].aborted_

CanWork(t) == Usable(t) /\ accessors[t].error = "none"

\* t holds an accessor of the record: it sees it, or saw it before it
\* removed it itself.
Holds(vl, t) == CurIdx(DB, vl, t) # 0

Outcome(t, r) ==
  /\ SetDB(r.db)
  /\ accessors' = [accessors EXCEPT ![t].error =
                     IF r.res \in {"ok", "true", "false"} THEN "none" ELSE r.res]

\* The threads that call the engine, each with its position in the call it
\* is in and the locals of that call; own: the transactions Begin returned
\* to it and it has not yet committed or aborted.
Threads == 1..MaxThreads

NoTransaction == [id |-> 0, snapshot |-> {}, cid |-> 0]

IdleThread ==
  [pc |-> "idle", op |-> "none", tx |-> 0, t |-> NoTransaction, f |-> "none",
   todo |-> {}, ret |-> NONE, error |-> "none", own |-> {}]

EngineIdle ==
  /\ lock_ = 0
  /\ threads = [th \in Threads |-> IdleThread]
  /\ begins = <<>>
  /\ applied = <<>>
  /\ notified = <<>>

\* The indexes, the name mapper, the test set, the timers and the properties
\* after construction: empty; no call of WaitForShutdown yet
AuxIdle ==
  /\ label_property_index_ = <<>>
  /\ index_build_tx_in_progress_ = {}
  /\ builds = <<>>
  /\ mapper_counter_ = 0
  /\ name_to_id_ = <<>>
  /\ id_to_name_ = <<>>
  /\ skiplist = {}
  /\ returned = <<>>
  /\ mutex = 0
  /\ cv = {}
  /\ shutdown = FALSE
  /\ waiter = "idle"
  /\ timers = {}
  /\ timer_objects = <<>>
  /\ props = <<>>

Init ==
  /\ counter_ = 0 /\ active_ = {} /\ clog_ = <<>> /\ store_ = <<>>
  /\ wal_ = <<>> /\ vertices_ = <<>> /\ edges_ = <<>>
  /\ vertex_generator_ = 0 /\ edge_generator_ = 0 /\ counters_ = <<>>
  /\ accessors = <<>>
  /\ recovered = <<>>
  /\ dir = [snapshots |-> <<>>, wal |-> <<>>]
  /\ EngineIdle
  /\ AuxIdle

\* GraphDbAccessor::GraphDbAccessor
Construct ==
  /\ Live
  /\ counter_ < MaxTx
  /\ Cardinality(DOMAIN accessors) < MaxAccessors
  /\ SetDB(EngineBegin(DB))
  /\ accessors' = (counter_ + 1 :> NewAccessor) @@ accessors
  /\ UNCHANGED <<recovered, dir, engVars, auxVars>>

AdvanceCommand(t) ==
  /\ Live /\ CanWork(t)
  /\ store_[t].cid < MaxCmd
  /\ SetDB(EngineAdvance(DB, t))
  /\ UNCHANGED <<accessors, recovered, dir, engVars, auxVars>>

Commit(t) ==
  /\ Live /\ CanWork(t)
  /\ SetDB(EngineCommit(DB, t))
  /\ accessors' = [accessors EXCEPT ![t].commited_ = TRUE]
  /\ UNCHANGED <<recovered, dir, engVars, auxVars>>

Abort(t) ==
  /\ Live /\ Usable(t)
  /\ SetDB(EngineAbort(DB, t))
  /\ accessors' = [accessors EXCEPT ![t].aborted_ = TRUE]
  /\ UNCHANGED <<recovered, dir, engVars, auxVars>>

\* Faulty variant: the destructor aborts without looking at commited_.
DestructIgnoresCommit(t) ==
  /\ recovered = <<>> /\ Len(wal_) < MaxWal
  /\ t \in DOMAIN accessors
  /\ IF ~accessors[t].aborted_
       THEN SetDB(EngineAbort(DB, t))
       ELSE UNCHANGED dbVars
  /\ accessors' = Erase(accessors, t)
  /\ UNCHANGED <<recovered, dir, engVars, auxVars>>

\* Faulty variant: the destructor never aborts.
DestructNeverAborts(t) ==
  /\ recovered = <<>> /\ Len(wal_) < MaxWal
  /\ t \in DOMAIN accessors
  /\ accessors' = Erase(accessors, t)
  /\ UNCHANGED <<dbVars, recovered, dir, engVars, auxVars>>

\* GraphDbAccessor::~GraphDbAccessor
Destruct(t) ==
  /\ Live
  /\ t \in DOMAIN accessors
  /\ IF ~accessors[t].commited_ /\ ~accessors[t].aborted_
       THEN SetDB(EngineAbort(DB, t))
       ELSE UNCHANGED dbVars
  /\ accessors' = Erase(accessors, t)
  /\ UNCHANGED <<recovered, dir, engVars, auxVars>>

CallInsertVertex(t) ==
  /\ Live /\ CanWork(t)
  /\ vertex_generator_ < MaxVertex
  /\ Outcome(t, InsertVertex(DB, t, NONE))
  /\ UNCHANGED <<recovered, dir, engVars, auxVars>>

CallInsertEdge(t, from, to) ==
  /\ Live /\ CanWork(t)
  /\ edge_generator_ < MaxEdge
  /\ FindVertex(DB, t, from, TRUE)
  /\ FindVertex(DB, t, to, TRUE)
  /\ Outcome(t, InsertEdge(DB, t, from, to, NONE))
  /\ UNCHANGED <<recovered, dir, engVars, auxVars>>

CallRemoveVertex(t, v) ==
  /\ Live /\ CanWork(t)
  /\ Holds(vertices_[v], t)
  /\ Outcome(t, RemoveVertex(DB, t, v))
  /\ UNCHANGED <<recovered, dir, engVars, auxVars>>

CallDetachRemoveVertex(t, v) ==
  /\ Live /\ CanWork(t)
  /\ Holds(vertices_[v], t)
  /\ Outcome(t, DetachRemoveVertex(DB, t, v))
  /\ UNCHANGED <<recovered, dir, engVars, auxVars>>

CallRemoveEdge(t, e) ==
  /\ Live /\ CanWork(t)
  /\ Holds(edges_[e], t)
  /\ Outcome(t, RemoveEdge(DB, t, e, TRUE, TRUE))
  /\ UNCHANGED <<recovered, dir, engVars, auxVars>>

\* The process stops (cleanly or not) and the database is started again on
\* what the WAL holds: durability::Recover.
Restart ==
  /\ recovered = <<>>
  /\ LET d == [snapshots |-> <<>>,
                wal |-> <<[max_tx |-> counter_, deltas |-> wal_]>>]
     IN /\ dir' = d
        /\ recovered' = <<Recover(d)>>
  /\ UNCHANGED <<dbVars, accessors, engVars, auxVars>>

Next ==
  \/ Construct
  \/ \E t \in DOMAIN accessors : AdvanceCommand(t)
  \/ \E t \in DOMAIN accessors : Commit(t)
  \/ \E t \in DOMAIN accessors : Abort(t)
  \/ \E t \in DOMAIN accessors : Destruct(t)
  \/ \E t \in DOMAIN accessors : CallInsertVertex(t)
  \/ \E t \in DOMAIN accessors, from \in DOMAIN vertices_, to \in DOMAIN vertices_ :
       CallInsertEdge(t, from, to)
  \/ \E t \in DOMAIN accessors, v \in DOMAIN vertices_ : CallRemoveVertex(t, v)
  \/ \E t \in DOMAIN accessors, v \in DOMAIN vertices_ : CallDetachRemoveVertex(t, v)
  \/ \E t \in DOMAIN accessors, e \in DOMAIN edges_ : CallRemoveEdge(t, e)
  \/ Restart

Spec == Init /\ [][Next]_vars

\* --------------------------------------- edges between two stored vertices
\* The accessor operations on a database that holds two vertices, inserted by
\* a transaction that has committed; wal_ holds the deltas appended since (the
\* WAL segment of that transaction is closed).
TwoVertices ==
  [EngineCommit(InsertVertex(InsertVertex(EngineBegin(EmptyDb), 1, NONE).db,
                             1, NONE).db, 1)
     EXCEPT !.wal = <<>>]

InitEdges ==
  /\ counter_ = TwoVertices.counter /\ active_ = TwoVertices.active
  /\ clog_ = TwoVertices.clog /\ store_ = TwoVertices.store
  /\ wal_ = TwoVertices.wal /\ vertices_ = TwoVertices.vertices
  /\ edges_ = TwoVertices.edges
  /\ vertex_generator_ = TwoVertices.vgen /\ edge_generator_ = TwoVertices.egen
  /\ counters_ = TwoVertices.counters
  /\ accessors = <<>>
  /\ recovered = <<>>
  /\ dir = [snapshots |-> <<>>, wal |-> <<>>]
  /\ EngineIdle
  /\ AuxIdle

NextEdges ==
  \/ Construct
  \/ \E t \in DOMAIN accessors : AdvanceCommand(t)
  \/ \E t \in DOMAIN accessors : Commit(t)
  \/ \E t \in DOMAIN accessors : Abort(t)
  \/ \E t \in DOMAIN accessors, from \in DOMAIN vertices_, to \in DOMAIN vertices_ :
       CallInsertEdge(t, from, to)
  \/ \E t \in DOMAIN accessors, v \in DOMAIN vertices_ : CallRemoveVertex(t, v)
  \/ \E t \in DOMAIN accessors, v \in DOMAIN vertices_ : CallDetachRemoveVertex(t, v)
  \/ \E t \in DOMAIN accessors, e \in DOMAIN edges_ : CallRemoveEdge(t, e)

SpecEdges == InitEdges /\ [][NextEdges]_vars

\* ---------------------------------- the storage API without the engine's
\* callers: the operations of an accessor that have no DCHECK of commited_
\* and aborted_ are called on any accessor that exists.
\* ConcurrentMap::emplace: the counter is created unless it exists
Emplace(cs, name, value) ==
  IF name \in DOMAIN cs THEN cs ELSE (name :> value) @@ cs

\* GraphDbAccessor::Counter: emplace the counter with 0, fetch_add(1)
CallCounter(t) ==
  /\ Live
  /\ t \in DOMAIN accessors
  /\ Emplace(counters_, "c", 0)["c"] < MaxCounter
  /\ SetDB([DB EXCEPT !.counters = [Emplace(counters_, "c", 0) EXCEPT !["c"] = @ + 1]])
  /\ UNCHANGED <<accessors, recovered, dir, engVars, auxVars>>

\* GraphDbAccessor::CounterSet: emplace the counter with value, or store it
CallCounterSet(t, value) ==
  /\ Live
  /\ t \in DOMAIN accessors
  /\ SetDB([DB EXCEPT !.counters = ("c" :> value) @@ counters_])
  /\ UNCHANGED <<accessors, recovered, dir, engVars, auxVars>>

\* GraphDbAccessor::FindVertex(gid, current_state = true).  The accessor holds
\* its Transaction by reference and the engine deletes the Transaction in
\* Commit and Abort (store_.erase): Visible(transaction(), ...) of an accessor
\* that was committed or aborted reads a deleted object, after which the
\* call finds the record, does not find it, or faults.
CallFindVertex(t, v) ==
  /\ Live
  /\ t \in DOMAIN accessors
  /\ \E res \in {"true", "false", "fault"} :
       /\ IF v \notin DOMAIN vertices_
            THEN res = "false"
            ELSE IF t \in DOMAIN store_
                   THEN res = (IF FindVertex(DB, t, v, TRUE) THEN "true" ELSE "false")
                   ELSE TRUE
       /\ accessors' = [accessors EXCEPT ![t].found = res]
  /\ UNCHANGED <<dbVars, recovered, dir, engVars, auxVars>>

NextApi ==
  \/ Construct
  \/ \E t \in DOMAIN accessors : Commit(t)
  \/ \E t \in DOMAIN accessors : Abort(t)
  \/ \E t \in DOMAIN accessors : Destruct(t)
  \/ \E t \in DOMAIN accessors : CallInsertVertex(t)
  \/ \E t \in DOMAIN accessors : CallCounter(t)
  \/ \E t \in DOMAIN accessors, value \in 0..MaxCounter : CallCounterSet(t, value)
  \/ \E t \in DOMAIN accessors, v \in 0..MaxVertex : CallFindVertex(t, v)

SpecApi == Init /\ [][NextApi]_vars

\* ------------------------------------- the engine called by several threads
\* tx::SingleNodeEngine statement by statement, with its spin lock.  The
\* threads call Begin, Advance, UpdateCommand, Commit, Abort, LocalLast,
\* GlobalActiveTransactions and LocalForEachActiveTransaction; a thread
\* advances, commits and aborts the transactions Begin returned to it.
restVars == <<vertices_, edges_, vertex_generator_, edge_generator_, counters_,
              accessors, recovered, dir, auxVars>>

\* Faulty variant: the caller does not wait for the lock.
AcquireNoWait(th) == lock_' = th

\* std::lock_guard<SpinLock> guard(lock_): the caller spins until lock_ is
\* free; the lock is not reentrant.
Acquire(th) == lock_ = 0 /\ lock_' = th

\* the end of the scope of the guard
Release(th) == lock_' = 0

\* begins holds 0 - th for the Begin call of th that took the lock and has
\* not got its id yet, and the id afterwards.
SetId(bs, th, id) == [i \in DOMAIN bs |-> IF bs[i] = 0 - th THEN id ELSE bs[i]]

\* Begin: std::lock_guard<SpinLock> guard(lock_)
BeginLock(th) ==
  /\ threads[th].pc = "idle"
  /\ counter_ < MaxTx
  /\ Acquire(th)
  /\ threads' = [threads EXCEPT ![th].pc = "Begin:counter", ![th].op = "Begin",
                                ![th].ret = NONE, ![th].error = "none"]
  /\ begins' = Append(begins, 0 - th)
  /\ UNCHANGED <<dbVars, applied, notified, accessors, recovered, dir, auxVars>>

\* Begin: transaction_id_t id{++counter_}
BeginCounter(th) ==
  /\ threads[th].pc = "Begin:counter"
  /\ counter_' = counter_ + 1
  /\ threads' = [threads EXCEPT ![th].pc = "Begin:new", ![th].tx = counter_ + 1]
  /\ begins' = SetId(begins, th, counter_ + 1)
  /\ UNCHANGED <<active_, clog_, store_, wal_, lock_, applied, notified, restVars>>

\* Faulty variant: the Transaction is made after active_.insert(id).
BeginNewAfterInsert(th) ==
  /\ threads[th].pc = "Begin:new"
  /\ threads' = [threads EXCEPT ![th].pc = "Begin:insert",
                   ![th].t = [id |-> threads[th].tx,
                              snapshot |-> active_ \cup {threads[th].tx}, cid |-> 1]]
  /\ UNCHANGED <<dbVars, lock_, begins, applied, notified, accessors, recovered, dir, auxVars>>

\* Begin: auto t = new Transaction(id, active_, *this)
BeginNew(th) ==
  /\ threads[th].pc = "Begin:new"
  /\ threads' = [threads EXCEPT ![th].pc = "Begin:insert",
                   ![th].t = [id |-> threads[th].tx, snapshot |-> active_, cid |-> 1]]
  /\ UNCHANGED <<dbVars, lock_, begins, applied, notified, accessors, recovered, dir, auxVars>>

\* Faulty variant: the guard ends after active_.insert(id), before the
\* Transaction is put into store_.
BeginInsertUnlocks(th) ==
  /\ threads[th].pc = "Begin:insert"
  /\ active_' = active_ \cup {threads[th].tx}
  /\ applied' = Append(applied, [type |-> "TxBegin", tx |-> threads[th].tx])
  /\ threads' = [threads EXCEPT ![th].pc = "Begin:emplace"]
  /\ Release(th)
  /\ UNCHANGED <<counter_, clog_, store_, wal_, begins, notified, restVars>>

\* Begin: active_.insert(id)
BeginInsert(th) ==
  /\ threads[th].pc = "Begin:insert"
  /\ active_' = active_ \cup {threads[th].tx}
  /\ applied' = Append(applied, [type |-> "TxBegin", tx |-> threads[th].tx])
  /\ threads' = [threads EXCEPT ![th].pc = "Begin:emplace"]
  /\ UNCHANGED <<counter_, clog_, store_, wal_, lock_, begins, notified, restVars>>

\* Begin: store_.emplace(id, t)
BeginEmplace(th) ==
  /\ threads[th].pc = "Begin:emplace"
  /\ store_' = (threads[th].tx :> threads[th].t) @@ store_
  /\ threads' = [threads EXCEPT ![th].pc = "Begin:wal"]
  /\ UNCHANGED <<counter_, active_, clog_, wal_, lock_, begins, applied, notified,
                 restVars>>

\* Begin: wal_->Emplace(database::StateDelta::TxBegin(id))
BeginWal(th) ==
  /\ threads[th].pc = "Begin:wal"
  /\ wal_' = Append(wal_, Delta("TxBegin", threads[th].tx, NONE, NONE, NONE))
  /\ threads' = [threads EXCEPT ![th].pc = "Begin:return"]
  /\ UNCHANGED <<counter_, active_, clog_, store_, lock_, begins, applied, notified,
                 restVars>>

\* Begin: return t, the guard goes out of scope
BeginReturn(th) ==
  /\ threads[th].pc = "Begin:return"
  /\ Release(th)
  /\ threads' = [threads EXCEPT ![th] =
                   [IdleThread EXCEPT !.ret = threads[th].tx,
                                      !.own = threads[th].own \cup {threads[th].tx}]]
  /\ UNCHANGED <<dbVars, begins, applied, notified, accessors, recovered, dir, auxVars>>

\* Advance: std::lock_guard<SpinLock> guard(lock_)
AdvanceLock(th, tx) ==
  /\ threads[th].pc = "idle"
  /\ tx \in threads[th].own
  /\ Acquire(th)
  /\ threads' = [threads EXCEPT ![th].pc = "Advance", ![th].op = "Advance",
                                ![th].tx = tx, ![th].ret = NONE,
                                ![th].error = "none"]
  /\ UNCHANGED <<dbVars, begins, applied, notified, accessors, recovered, dir, auxVars>>

\* Faulty variant: the command id is incremented without the check and
\* wraps around.
AdvanceRunWraps(th) ==
  /\ threads[th].pc = "Advance"
  /\ store_' = [store_ EXCEPT ![threads[th].tx].cid = (@ + 1) % (CommandIdMax + 1)]
  /\ threads' = [threads EXCEPT ![th] =
                   [IdleThread EXCEPT !.ret = store_'[threads[th].tx].cid,
                                      !.own = threads[th].own]]
  /\ Release(th)
  /\ UNCHANGED <<counter_, active_, clog_, wal_, begins, applied, notified, restVars>>

\* Advance: the check of the command id, ++cid_, return
AdvanceRun(th) ==
  /\ threads[th].pc = "Advance"
  /\ IF store_[threads[th].tx].cid = CommandIdMax
       THEN /\ UNCHANGED dbVars
            /\ threads' = [threads EXCEPT ![th] =
                             [IdleThread EXCEPT !.error = "TransactionError",
                                                !.tx = threads[th].tx,
                                                !.own = threads[th].own]]
       ELSE /\ SetDB(EngineAdvance(DB, threads[th].tx))
            /\ threads' = [threads EXCEPT ![th] =
                             [IdleThread EXCEPT !.ret = store_[threads[th].tx].cid + 1,
                                                !.own = threads[th].own]]
  /\ Release(th)
  /\ UNCHANGED <<begins, applied, notified, accessors, recovered, dir, auxVars>>

\* UpdateCommand: std::lock_guard<SpinLock> guard(lock_)
UpdateCommandLock(th, tx) ==
  /\ threads[th].pc = "idle"
  /\ tx \in threads[th].own
  /\ Acquire(th)
  /\ threads' = [threads EXCEPT ![th].pc = "UpdateCommand",
                                ![th].op = "UpdateCommand", ![th].tx = tx,
                                ![th].ret = NONE, ![th].error = "none"]
  /\ UNCHANGED <<dbVars, begins, applied, notified, accessors, recovered, dir, auxVars>>

\* UpdateCommand: return it->second->cid_
UpdateCommandRun(th) ==
  /\ threads[th].pc = "UpdateCommand"
  /\ threads' = [threads EXCEPT ![th] =
                   [IdleThread EXCEPT !.ret = store_[threads[th].tx].cid,
                                      !.own = threads[th].own]]
  /\ Release(th)
  /\ UNCHANGED <<dbVars, begins, applied, notified, accessors, recovered, dir, auxVars>>

\* Commit, Abort: auto tx_id = t.id_; std::lock_guard<SpinLock> guard(lock_)
EndLock(th, tx, op) ==
  /\ threads[th].pc = "idle"
  /\ tx \in threads[th].own
  /\ Acquire(th)
  /\ threads' = [threads EXCEPT ![th].pc = "End:clog", ![th].op = op,
                                ![th].tx = tx, ![th].ret = NONE,
                                ![th].error = IF threads[th].tx = tx THEN @ ELSE "none",
                                ![th].own = @ \ {tx}]
  /\ UNCHANGED <<dbVars, begins, applied, notified, accessors, recovered, dir, auxVars>>

\* Commit: clog_.set_committed(tx_id); Abort: clog_.set_aborted(tx_id)
EndClog(th) ==
  /\ threads[th].pc = "End:clog"
  /\ clog_' = (threads[th].tx :>
                 (IF threads[th].op = "Commit" THEN "committed" ELSE "aborted"))
              @@ clog_
  /\ threads' = [threads EXCEPT ![th].pc = "End:remove"]
  /\ UNCHANGED <<counter_, active_, store_, wal_, lock_, begins, applied, notified,
                 restVars>>

\* Faulty variant: the guard ends after active_.remove(tx_id), before the
\* delta is appended to the WAL.
EndRemoveUnlocks(th) ==
  /\ threads[th].pc = "End:remove"
  /\ active_' = active_ \ {threads[th].tx}
  /\ applied' = Append(applied, [type |-> IF threads[th].op = "Commit"
                                            THEN "TxCommit" ELSE "TxAbort",
                                 tx |-> threads[th].tx])
  /\ threads' = [threads EXCEPT ![th].pc = "End:wal"]
  /\ Release(th)
  /\ UNCHANGED <<counter_, clog_, store_, wal_, begins, notified, restVars>>

\* Commit, Abort: active_.remove(tx_id)
EndRemove(th) ==
  /\ threads[th].pc = "End:remove"
  /\ active_' = active_ \ {threads[th].tx}
  /\ applied' = Append(applied, [type |-> IF threads[th].op = "Commit"
                                            THEN "TxCommit" ELSE "TxAbort",
                                 tx |-> threads[th].tx])
  /\ threads' = [threads EXCEPT ![th].pc = "End:wal"]
  /\ UNCHANGED <<counter_, clog_, store_, wal_, lock_, begins, notified, restVars>>

\* Commit: wal_->Emplace(TxCommit(tx_id)); Abort: wal_->Emplace(TxAbort(tx_id))
EndWal(th) ==
  /\ threads[th].pc = "End:wal"
  /\ wal_' = Append(wal_, Delta(IF threads[th].op = "Commit"
                                  THEN "TxCommit" ELSE "TxAbort",
                                threads[th].tx, NONE, NONE, NONE))
  /\ threads' = [threads EXCEPT ![th].pc = "End:erase"]
  /\ UNCHANGED <<counter_, active_, clog_, store_, lock_, begins, applied, notified,
                 restVars>>

\* Faulty variant: the scope of the guard does not end before
\* NotifyListeners.
EndEraseKeepsLock(th) ==
  /\ threads[th].pc = "End:erase"
  /\ store_' = Erase(store_, threads[th].tx)
  /\ threads' = [threads EXCEPT ![th].pc = "End:notify"]
  /\ UNCHANGED <<counter_, active_, clog_, wal_, lock_, begins, applied, notified,
                 restVars>>

\* Commit, Abort: store_.erase(store_.find(tx_id)), the end of the scope of
\* the guard
EndErase(th) ==
  /\ threads[th].pc = "End:erase"
  /\ store_' = Erase(store_, threads[th].tx)
  /\ Release(th)
  /\ threads' = [threads EXCEPT ![th].pc = "End:notify"]
  /\ UNCHANGED <<counter_, active_, clog_, wal_, begins, applied, notified, restVars>>

\* Engine::NotifyListeners and the listeners are not part of the sources at
\* hand: modelled from the specification, section 4.3 (the registered
\* listeners are notified after the engine lock is released).  A listener asks
\* the engine for the active transactions (GlobalActiveTransactions, which
\* takes the lock) and for the commit log state of the transaction.
NotifyListeners(th, tx) ==
  /\ lock_ = 0
  /\ notified' = Append(notified,
                   [tx |-> tx, active |-> tx \in active_,
                    info |-> Info(DB, tx), stored |-> tx \in DOMAIN store_,
                    logged |-> \E i \in 1..Len(wal_) :
                                 /\ wal_[i].tx = tx
                                 /\ wal_[i].type \in {"TxCommit", "TxAbort"}])

\* Commit, Abort: NotifyListeners(tx_id), return
EndNotify(th) ==
  /\ threads[th].pc = "End:notify"
  /\ NotifyListeners(th, threads[th].tx)
  /\ threads' = [threads EXCEPT ![th] = [IdleThread EXCEPT !.own = threads[th].own]]
  /\ UNCHANGED <<dbVars, lock_, begins, applied, accessors, recovered, dir, auxVars>>

\* LocalLast: return counter_.load(), a read of the atomic counter without
\* the lock, at any moment
LocalLast(db) == db.counter

\* GlobalActiveTransactions: the guard, a copy of active_, return.  It is
\* called by a thread, or by the callback a thread passed to
\* LocalForEachActiveTransaction.
GlobalActiveTransactions(th) ==
  /\ \/ threads[th].pc = "idle"
     \/ threads[th].pc = "f" /\ threads[th].f = "engine"
  /\ lock_ = 0
  /\ threads' = [threads EXCEPT
                   ![th].pc = IF threads[th].pc = "f" THEN "ForEach" ELSE "idle"]
  /\ UNCHANGED <<dbVars, lock_, begins, applied, notified, accessors, recovered, dir, auxVars>>

\* Faulty variant: the snapshot of the oldest active transaction is left out.
GlobalGcSnapshotActiveOnly(db) ==
  IF db.active = {} THEN {db.counter + 1} ELSE db.active

\* Faulty variant: the snapshot of the newest active transaction is taken.
GlobalGcSnapshotOfNewest(db) ==
  IF db.active = {}
    THEN {db.counter + 1}
    ELSE db.store[Max(db.active)].snapshot \cup {Max(db.active)}

\* GlobalGcSnapshot, under the lock: without active transactions {counter_ + 1},
\* else the snapshot of the oldest active transaction and its id
GlobalGcSnapshot(db) ==
  IF db.active = {}
    THEN {db.counter + 1}
    ELSE db.store[Min(db.active)].snapshot \cup {Min(db.active)}

\* GlobalGcSnapshot: std::lock_guard<SpinLock> guard(lock_)
GlobalGcSnapshotLock(th) ==
  /\ threads[th].pc = "idle"
  /\ Acquire(th)
  /\ threads' = [threads EXCEPT ![th].pc = "GcSnapshot",
                                ![th].op = "GlobalGcSnapshot",
                                ![th].ret = NONE, ![th].error = "none"]
  /\ UNCHANGED <<dbVars, begins, applied, notified, accessors, recovered, dir, auxVars>>

\* GlobalGcSnapshot: snapshot_copy, held in todo, is made and filled
GlobalGcSnapshotCopy(th) ==
  /\ threads[th].pc = "GcSnapshot"
  /\ threads' = [threads EXCEPT ![th].pc = "GcSnapshot:return",
                                ![th].todo = GlobalGcSnapshot(DB)]
  /\ UNCHANGED <<dbVars, lock_, begins, applied, notified, accessors, recovered, dir, auxVars>>

\* GlobalGcSnapshot: return snapshot_copy, the guard goes out of scope
GlobalGcSnapshotReturn(th) ==
  /\ threads[th].pc = "GcSnapshot:return"
  /\ Release(th)
  /\ threads' = [threads EXCEPT ![th] = [IdleThread EXCEPT !.own = threads[th].own]]
  /\ UNCHANGED <<dbVars, begins, applied, notified, accessors, recovered, dir, auxVars>>

\* LocalForEachActiveTransaction: std::lock_guard<SpinLock> guard(lock_).
\* f is the callback of the caller: "none" touches nothing of the engine,
\* "engine" calls GlobalActiveTransactions.
ForEachLock(th, f) ==
  /\ threads[th].pc = "idle"
  /\ Acquire(th)
  /\ threads' = [threads EXCEPT ![th].pc = "ForEach",
                                ![th].op = "LocalForEachActiveTransaction",
                                ![th].f = f, ![th].todo = active_,
                                ![th].ret = NONE, ![th].error = "none"]
  /\ UNCHANGED <<dbVars, begins, applied, notified, accessors, recovered, dir, auxVars>>

\* LocalForEachActiveTransaction: for (auto transaction : active_)
\* f(*store_.find(transaction)->second), in the order of the snapshot
ForEachCall(th) ==
  /\ threads[th].pc = "ForEach"
  /\ threads[th].todo # {}
  /\ threads' = [threads EXCEPT ![th].pc = "f",
                                ![th].tx = Min(threads[th].todo),
                                ![th].todo = @ \ {Min(threads[th].todo)}]
  /\ UNCHANGED <<dbVars, lock_, begins, applied, notified, accessors, recovered, dir, auxVars>>

\* the callback returns
CallbackReturn(th) ==
  /\ threads[th].pc = "f"
  /\ threads[th].f = "none"
  /\ threads' = [threads EXCEPT ![th].pc = "ForEach"]
  /\ UNCHANGED <<dbVars, lock_, begins, applied, notified, accessors, recovered, dir, auxVars>>

\* LocalForEachActiveTransaction: the end of the loop and of the guard
ForEachReturn(th) ==
  /\ threads[th].pc = "ForEach"
  /\ threads[th].todo = {}
  /\ Release(th)
  /\ threads' = [threads EXCEPT ![th] = [IdleThread EXCEPT !.own = threads[th].own]]
  /\ UNCHANGED <<dbVars, begins, applied, notified, accessors, recovered, dir, auxVars>>

NextEngine ==
  \/ \E th \in Threads : BeginLock(th)
  \/ \E th \in Threads : BeginCounter(th)
  \/ \E th \in Threads : BeginNew(th)
  \/ \E th \in Threads : BeginInsert(th)
  \/ \E th \in Threads : BeginEmplace(th)
  \/ \E th \in Threads : BeginWal(th)
  \/ \E th \in Threads : BeginReturn(th)
  \/ \E th \in Threads, tx \in 1..counter_ : AdvanceLock(th, tx)
  \/ \E th \in Threads : AdvanceRun(th)
  \/ \E th \in Threads, tx \in 1..counter_ : UpdateCommandLock(th, tx)
  \/ \E th \in Threads : UpdateCommandRun(th)
  \/ \E th \in Threads, tx \in 1..counter_, op \in {"Commit", "Abort"} :
       EndLock(th, tx, op)
  \/ \E th \in Threads : EndClog(th)
  \/ \E th \in Threads : EndRemove(th)
  \/ \E th \in Threads : EndWal(th)
  \/ \E th \in Threads : EndErase(th)
  \/ \E th \in Threads : EndNotify(th)
  \/ \E th \in Threads : GlobalActiveTransactions(th)
  \/ \E th \in Threads : GlobalGcSnapshotLock(th)
  \/ \E th \in Threads : GlobalGcSnapshotCopy(th)
  \/ \E th \in Threads : GlobalGcSnapshotReturn(th)
  \/ \E th \in Threads, f \in {"none", "engine"} : ForEachLock(th, f)
  \/ \E th \in Threads : ForEachCall(th)
  \/ \E th \in Threads : CallbackReturn(th)
  \/ \E th \in Threads : ForEachReturn(th)

SpecEngine == Init /\ [][NextEngine]_vars

\* ------------------------------------------------ the online index build
\* GraphDbAccessor::BuildIndex statement by statement, called by transactions
\* that run concurrently with each other and with writers.  Every vertex a
\* writer inserts gets the label and a non-null value of the property of
\* every key, so that every (label, property) index has to hold it.
MaxIndexTx == 4    \* transactions begun: the clients and the readers of the builds
MaxKeys == 2       \* (label, property) keys
Keys == 1..MaxKeys

\* LabelPropertyIndex: key -> [entries, ready]; its source is not at hand:
\* modelled from the specification, section 4.3.
\* CreateIndex: installs an empty index, fails when the key is there already
CreateIndex(idx, key) ==
  IF key \in DOMAIN idx
    THEN [idx |-> idx, res |-> FALSE]
    ELSE [idx |-> (key :> [entries |-> {}, ready |-> FALSE]) @@ idx, res |-> TRUE]

UpdateOnLabelProperty(idx, key, gs) == [idx EXCEPT ![key].entries = @ \cup gs]

\* UpdateOnLabel / UpdateOnProperty: the vertex goes into every installed
\* index whose label and property it has
UpdateOnProperty(idx, g) ==
  [k \in DOMAIN idx |-> [idx[k] EXCEPT !.entries = @ \cup {g}]]

IndexFinishedBuilding(idx, key) == [idx EXCEPT ![key].ready = TRUE]

\* tx::Engine::GlobalIsActive
GlobalIsActive(db, id) == Info(db, id) = "active"

\* The locals of a BuildIndex call: key, wait_transactions, the ids the for
\* loop has not reached yet, the id the while loop waits for and the reader
\* transaction; as history, the ids the test of line 122 found in the
\* index-building set (skipped) and the newest transaction id at the moment
\* CreateIndex returned (installed).
BuildFrame(pc, key) ==
  [pc |-> pc, key |-> key, wait |-> {}, todo |-> {}, cur |-> 0, reader |-> 0,
   skipped |-> {}, installed |-> 0]

\* the transaction t is inside a BuildIndex call
Building(t) == t \in DOMAIN builds /\ builds[t].pc \notin {"returned", "raised"}

\* the transaction t has called BuildIndex (a client calls it once)
Called(t) == t \in DOMAIN builds

SetBuild(t, f) == builds' = (t :> f) @@ Erase(builds, t)

\* GraphDbAccessor::GraphDbAccessor of a client
IndexTxBegin ==
  /\ counter_ < MaxIndexTx
  /\ Cardinality(DOMAIN accessors) < MaxAccessors
  /\ SetDB(EngineBegin(DB))
  /\ accessors' = (counter_ + 1 :> NewAccessor) @@ accessors
  /\ UNCHANGED <<recovered, dir, engVars, auxVars>>

\* GraphDbAccessor::Commit of a client that is in no call
IndexTxCommit(t) ==
  /\ CanWork(t) /\ ~Building(t)
  /\ SetDB(EngineCommit(DB, t))
  /\ accessors' = [accessors EXCEPT ![t].commited_ = TRUE]
  /\ UNCHANGED <<recovered, dir, engVars, auxVars>>

\* GraphDbAccessor::Abort of a client that is in no call
IndexTxAbort(t) ==
  /\ Usable(t) /\ ~Building(t)
  /\ SetDB(EngineAbort(DB, t))
  /\ accessors' = [accessors EXCEPT ![t].aborted_ = TRUE]
  /\ UNCHANGED <<recovered, dir, engVars, auxVars>>

\* Faulty variant: the writer does not update the label-property indexes.
InsertLabelledNoIndexUpdate(t) ==
  /\ CanWork(t) /\ ~Building(t)
  /\ vertex_generator_ < MaxVertex
  /\ Outcome(t, InsertVertex(DB, t, NONE))
  /\ UNCHANGED <<recovered, dir, engVars, auxVars>>

\* InsertVertex, add_label and PropsSet of a writer: the record, then
\* UpdateLabelIndices and UpdatePropertyIndex with the new version
InsertLabelled(t) ==
  /\ CanWork(t) /\ ~Building(t)
  /\ vertex_generator_ < MaxVertex
  /\ Outcome(t, InsertVertex(DB, t, NONE))
  /\ label_property_index_' = UpdateOnProperty(label_property_index_, vertex_generator_)
  /\ UNCHANGED <<recovered, dir, engVars, index_build_tx_in_progress_, builds,
                 mapVars, skiplist, returned, miscVars>>

\* BuildIndex, line 96: the caller enters the index-building set
BuildInsert(t, key) ==
  /\ CanWork(t) /\ ~Called(t)
  /\ index_build_tx_in_progress_' = index_build_tx_in_progress_ \cup {t}
  /\ SetBuild(t, BuildFrame("create", key))
  /\ UNCHANGED <<dbVars, accessors, recovered, dir, engVars,
                 label_property_index_, mapVars, skiplist, returned, miscVars>>

\* Faulty variant: the call goes on when the index exists already.
BuildCreateIgnoresExisting(t) ==
  /\ Building(t) /\ builds[t].pc = "create"
  /\ label_property_index_' = CreateIndex(label_property_index_, builds[t].key).idx
  /\ SetBuild(t, [builds[t] EXCEPT !.pc = "capture", !.installed = counter_])
  /\ UNCHANGED <<dbVars, accessors, recovered, dir, engVars,
                 index_build_tx_in_progress_, mapVars, skiplist, returned, miscVars>>

\* lines 106-111, and on_exit_1 when CreateIndex fails
BuildCreate(t) ==
  /\ Building(t) /\ builds[t].pc = "create"
  /\ LET r == CreateIndex(label_property_index_, builds[t].key) IN
     /\ label_property_index_' = r.idx
     /\ IF r.res
          THEN /\ SetBuild(t, [builds[t] EXCEPT !.pc = "capture",
                                                  !.installed = counter_])
               /\ UNCHANGED <<accessors, index_build_tx_in_progress_>>
          ELSE /\ SetBuild(t, BuildFrame("raised", builds[t].key))
               /\ index_build_tx_in_progress_' = index_build_tx_in_progress_ \ {t}
               /\ accessors' = [accessors EXCEPT ![t].error = "IndexExistsError"]
  /\ UNCHANGED <<dbVars, recovered, dir, engVars, mapVars, skiplist, returned, miscVars>>

\* line 118: wait_transactions
BuildCapture(t) ==
  /\ Building(t) /\ builds[t].pc = "capture"
  /\ SetBuild(t, [builds[t] EXCEPT !.pc = "for", !.wait = active_,
                                    !.todo = active_])
  /\ UNCHANGED <<dbVars, accessors, recovered, dir, engVars,
                 label_property_index_, index_build_tx_in_progress_,
                 mapVars, skiplist, returned, miscVars>>

\* Faulty variant: the builder waits for no transaction.
BuildForWaitsForNone(t) ==
  /\ Building(t) /\ builds[t].pc = "for" /\ builds[t].todo # {}
  /\ SetBuild(t, [builds[t] EXCEPT !.todo = {}])
  /\ UNCHANGED <<dbVars, accessors, recovered, dir, engVars,
                 label_property_index_, index_build_tx_in_progress_,
                 mapVars, skiplist, returned, miscVars>>

\* Faulty variant: the builder waits for the index builders too.
BuildForSkipsNone(t) ==
  /\ Building(t) /\ builds[t].pc = "for" /\ builds[t].todo # {}
  /\ LET id == Min(builds[t].todo) IN
     SetBuild(t, [builds[t] EXCEPT !.todo = @ \ {id}, !.pc = "while", !.cur = id])
  /\ UNCHANGED <<dbVars, accessors, recovered, dir, engVars,
                 label_property_index_, index_build_tx_in_progress_,
                 mapVars, skiplist, returned, miscVars>>

\* lines 121-122: the next id of wait_transactions; an index builder is skipped
BuildFor(t) ==
  /\ Building(t) /\ builds[t].pc = "for" /\ builds[t].todo # {}
  /\ LET id == Min(builds[t].todo) IN
     SetBuild(t, IF id \in index_build_tx_in_progress_
                   THEN [builds[t] EXCEPT !.todo = @ \ {id},
                                          !.skipped = @ \cup {id}]
                   ELSE [builds[t] EXCEPT !.todo = @ \ {id},
                                          !.pc = "while", !.cur = id])
  /\ UNCHANGED <<dbVars, accessors, recovered, dir, engVars,
                 label_property_index_, index_build_tx_in_progress_,
                 mapVars, skiplist, returned, miscVars>>

\* lines 123-130: the loop is left only when the transaction has ended (the
\* `continue` of line 128 goes on with this loop)
BuildWhile(t) ==
  /\ Building(t) /\ builds[t].pc = "while"
  /\ ~GlobalIsActive(DB, builds[t].cur)
  /\ SetBuild(t, [builds[t] EXCEPT !.pc = "for", !.cur = 0])
  /\ UNCHANGED <<dbVars, accessors, recovered, dir, engVars,
                 label_property_index_, index_build_tx_in_progress_,
                 mapVars, skiplist, returned, miscVars>>

\* line 136: GraphDbAccessor dba(db_), the reader transaction begins
BuildReader(t) ==
  /\ Building(t) /\ builds[t].pc = "for" /\ builds[t].todo = {}
  /\ SetDB(EngineBegin(DB))
  /\ SetBuild(t, [builds[t] EXCEPT !.pc = "insert", !.reader = counter_ + 1])
  /\ UNCHANGED <<accessors, recovered, dir, engVars, label_property_index_,
                 index_build_tx_in_progress_, mapVars, skiplist, returned, miscVars>>

\* lines 140-141: the reader enters the index-building set
BuildInsertReader(t) ==
  /\ Building(t) /\ builds[t].pc = "insert"
  /\ index_build_tx_in_progress_' = index_build_tx_in_progress_ \cup {builds[t].reader}
  /\ SetBuild(t, [builds[t] EXCEPT !.pc = "scan"])
  /\ UNCHANGED <<dbVars, accessors, recovered, dir, engVars,
                 label_property_index_, mapVars, skiplist, returned, miscVars>>

\* lines 149-152: what the reader sees goes into the index
BuildScan(t) ==
  /\ Building(t) /\ builds[t].pc = "scan"
  /\ label_property_index_' =
       UpdateOnLabelProperty(label_property_index_, builds[t].key,
                             Vertices(DB, builds[t].reader, FALSE))
  /\ SetBuild(t, [builds[t] EXCEPT !.pc = "commit"])
  /\ UNCHANGED <<dbVars, accessors, recovered, dir, engVars,
                 index_build_tx_in_progress_, mapVars, skiplist, returned, miscVars>>

\* lines 157-160: dba.Commit() and the BuildIndex delta
BuildCommit(t) ==
  /\ Building(t) /\ builds[t].pc = "commit"
  /\ LET db == EngineCommit(DB, builds[t].reader) IN
     SetDB([db EXCEPT !.wal = Append(db.wal,
              Delta("BuildIndex", builds[t].reader, builds[t].key, NONE, NONE))])
  /\ SetBuild(t, [builds[t] EXCEPT !.pc = "finish"])
  /\ UNCHANGED <<accessors, recovered, dir, engVars, label_property_index_,
                 index_build_tx_in_progress_, mapVars, skiplist, returned, miscVars>>

\* line 165
BuildFinish(t) ==
  /\ Building(t) /\ builds[t].pc = "finish"
  /\ label_property_index_' = IndexFinishedBuilding(label_property_index_, builds[t].key)
  /\ SetBuild(t, [builds[t] EXCEPT !.pc = "exit_2"])
  /\ UNCHANGED <<dbVars, accessors, recovered, dir, engVars,
                 index_build_tx_in_progress_, mapVars, skiplist, returned, miscVars>>

\* on_exit_2, lines 143-147
BuildExit2(t) ==
  /\ Building(t) /\ builds[t].pc = "exit_2"
  /\ index_build_tx_in_progress_' = index_build_tx_in_progress_ \ {builds[t].reader}
  /\ SetBuild(t, [builds[t] EXCEPT !.pc = "exit_1"])
  /\ UNCHANGED <<dbVars, accessors, recovered, dir, engVars,
                 label_property_index_, mapVars, skiplist, returned, miscVars>>

\* on_exit_1, lines 100-104, and the return
BuildExit1(t) ==
  /\ Building(t) /\ builds[t].pc = "exit_1"
  /\ index_build_tx_in_progress_' = index_build_tx_in_progress_ \ {t}
  /\ SetBuild(t, [BuildFrame("returned", builds[t].key)
                   EXCEPT !.reader = builds[t].reader])
  /\ UNCHANGED <<dbVars, accessors, recovered, dir, engVars,
                 label_property_index_, mapVars, skiplist, returned, miscVars>>

\* one statement of the BuildIndex call of t
BuildStep(t) ==
  \/ BuildCreate(t)
  \/ BuildCapture(t)
  \/ BuildFor(t)
  \/ BuildWhile(t)
  \/ BuildReader(t)
  \/ BuildInsertReader(t)
  \/ BuildScan(t)
  \/ BuildCommit(t)
  \/ BuildFinish(t)
  \/ BuildExit2(t)
  \/ BuildExit1(t)

NextIndex ==
  \/ IndexTxBegin
  \/ \E t \in DOMAIN accessors : IndexTxCommit(t)
  \/ \E t \in DOMAIN accessors : IndexTxAbort(t)
  \/ \E t \in DOMAIN accessors : InsertLabelled(t)
  \/ \E t \in DOMAIN accessors, key \in Keys : BuildInsert(t, key)
  \/ \E t \in DOMAIN accessors : BuildCreate(t)
  \/ \E t \in DOMAIN accessors : BuildCapture(t)
  \/ \E t \in DOMAIN accessors : BuildFor(t)
  \/ \E t \in DOMAIN accessors : BuildWhile(t)
  \/ \E t \in DOMAIN accessors : BuildReader(t)
  \/ \E t \in DOMAIN accessors : BuildInsertReader(t)
  \/ \E t \in DOMAIN accessors : BuildScan(t)
  \/ \E t \in DOMAIN accessors : BuildCommit(t)
  \/ \E t \in DOMAIN accessors : BuildFinish(t)
  \/ \E t \in DOMAIN accessors : BuildExit2(t)
  \/ \E t \in DOMAIN accessors : BuildExit1(t)

SpecIndex == Init /\ [][NextIndex]_vars

\* The same with the scheduling the build relies on: the thread of a
\* BuildIndex call goes on running, and a client that is in no BuildIndex
\* call ends its transaction (it commits, or aborts after an error).
SpecIndexFair ==
  /\ SpecIndex
  /\ \A t \in 1..MaxIndexTx : WF_vars(BuildStep(t))
  /\ \A t \in 1..MaxIndexTx : WF_vars(IndexTxCommit(t) \/ IndexTxAbort(t))

\* ---------------------------------------------------- storage::NameIdMapper
\* NameToId and IdToName called by concurrent threads, statement by
\* statement; each access to one of the two skip lists (find, insert) and
\* the fetch_add of the counter is one atomic step.
MaxCalls == 4      \* calls made by the threads together
Names == {"a", "b"}

\* the locals of a NameToId call
MapperFrame(pc, name, id, new_id) ==
  [pc |-> pc, name |-> name, id |-> id, new_id |-> new_id]

SetThread(th, f) == threads' = [threads EXCEPT ![th] = f]

\* the calls made so far
CallsMade == Len(returned) + Cardinality({th \in Threads : threads[th].pc # "idle"})

\* NameToId, lines 36-38 and 48-50: find(name)
NameToIdFind(th, name) ==
  /\ threads[th].pc = "idle"
  /\ CallsMade < MaxCalls
  /\ SetThread(th, IF name \in DOMAIN name_to_id_
                     THEN MapperFrame("id_to_name", name, name_to_id_[name], NONE)
                     ELSE MapperFrame("fetch_add", name, NONE, NONE))
  /\ UNCHANGED <<dbVars, accessors, recovered, dir, lock_, begins, applied,
                 notified, idxVars, mapVars, skiplist, returned, miscVars>>

\* line 39: new_id = counter_.fetch_add(1)
NameToIdFetchAdd(th) ==
  /\ threads[th].pc = "fetch_add"
  /\ mapper_counter_' = mapper_counter_ + 1
  /\ SetThread(th, [threads[th] EXCEPT !.pc = "insert", !.new_id = mapper_counter_])
  /\ UNCHANGED <<dbVars, accessors, recovered, dir, lock_, begins, applied,
                 notified, idxVars, name_to_id_, id_to_name_, skiplist, returned, miscVars>>

\* Faulty variant: the insertion replaces the id another thread inserted.
NameToIdInsertReplaces(th) ==
  /\ threads[th].pc = "insert"
  /\ name_to_id_' = (threads[th].name :> threads[th].new_id) @@ name_to_id_
  /\ SetThread(th, [threads[th] EXCEPT !.pc = "id_to_name", !.id = threads[th].new_id])
  /\ UNCHANGED <<dbVars, accessors, recovered, dir, lock_, begins, applied,
                 notified, idxVars, mapper_counter_, id_to_name_, skiplist, returned, miscVars>>

\* lines 40-47: insert({name, new_id}) yields the item of the name, which is
\* another thread's when that thread inserted the name first
NameToIdInsert(th) ==
  /\ threads[th].pc = "insert"
  /\ name_to_id_' = name_to_id_ @@ (threads[th].name :> threads[th].new_id)
  /\ SetThread(th, [threads[th] EXCEPT !.pc = "id_to_name",
                                       !.id = name_to_id_'[threads[th].name]])
  /\ UNCHANGED <<dbVars, accessors, recovered, dir, lock_, begins, applied,
                 notified, idxVars, mapper_counter_, id_to_name_, skiplist, returned, miscVars>>

\* Faulty variant: only the thread that took a new id inserts the reverse entry.
NameToIdInsertReverseWhenNew(th) ==
  /\ threads[th].pc = "id_to_name"
  /\ id_to_name_' = IF threads[th].new_id = NONE
                      THEN id_to_name_
                      ELSE id_to_name_ @@ (threads[th].id :> threads[th].name)
  /\ SetThread(th, [threads[th] EXCEPT !.pc = "return"])
  /\ UNCHANGED <<dbVars, accessors, recovered, dir, lock_, begins, applied,
                 notified, idxVars, mapper_counter_, name_to_id_, skiplist, returned, miscVars>>

\* lines 51-55: id_to_name_.insert({id, name}), whether the name was found or not
NameToIdInsertReverse(th) ==
  /\ threads[th].pc = "id_to_name"
  /\ id_to_name_' = id_to_name_ @@ (threads[th].id :> threads[th].name)
  /\ SetThread(th, [threads[th] EXCEPT !.pc = "return"])
  /\ UNCHANGED <<dbVars, accessors, recovered, dir, lock_, begins, applied,
                 notified, idxVars, mapper_counter_, name_to_id_, skiplist, returned, miscVars>>

\* line 56: return id
NameToIdReturn(th) ==
  /\ threads[th].pc = "return"
  /\ returned' = Append(returned, [op |-> "NameToId", th |-> th,
                                   name |-> threads[th].name, id |-> threads[th].id,
                                   new_id |-> threads[th].new_id])
  /\ SetThread(th, IdleThread)
  /\ UNCHANGED <<dbVars, accessors, recovered, dir, lock_, begins, applied,
                 notified, idxVars, mapVars, skiplist, miscVars>>

\* IdToName, lines 68-74: the name of the id, or the CHECK fails
IdToName(id) ==
  IF id \in DOMAIN id_to_name_ THEN id_to_name_[id] ELSE "CHECK failed"

\* a call of IdToName with an id that may have been handed out
CallIdToName(th, id) ==
  /\ threads[th].pc = "idle"
  /\ CallsMade < MaxCalls
  /\ returned' = Append(returned, [op |-> "IdToName", th |-> th,
                                   name |-> IdToName(id), id |-> id,
                                   new_id |-> NONE])
  /\ UNCHANGED <<dbVars, accessors, recovered, dir, engVars, idxVars, mapVars, skiplist, miscVars>>

NextMapper ==
  \/ \E th \in Threads, name \in Names : NameToIdFind(th, name)
  \/ \E th \in Threads : NameToIdFetchAdd(th)
  \/ \E th \in Threads : NameToIdInsert(th)
  \/ \E th \in Threads : NameToIdInsertReverse(th)
  \/ \E th \in Threads : NameToIdReturn(th)
  \/ \E th \in Threads, id \in 0..mapper_counter_ : CallIdToName(th, id)

SpecMapper == Init /\ [][NextMapper]_vars

\* ------------------------------------------------- the named counters
\* GraphDbAccessor::Counter and CounterSet called by concurrent threads:
\* the emplace into the concurrent map and the fetch_add or store on the
\* atomic value it yields are two steps.
CounterNames == {"c", "d"}

CounterFrame(pc, op, name, value) ==
  [pc |-> pc, op |-> op, name |-> name, value |-> value]

\* what a call returned; a call returns with its last access to the counter
CounterReturned(th, value) ==
  [op |-> threads[th].op, th |-> th, name |-> threads[th].name, value |-> value]

\* Faulty variant: the emplace sets an existing counter back to 0.
CounterEmplaceResets(th, name) ==
  /\ threads[th].pc = "idle"
  /\ CallsMade < MaxCalls
  /\ counters_' = (name :> 0) @@ counters_
  /\ SetThread(th, CounterFrame("fetch_add", "Counter", name, 0))
  /\ UNCHANGED <<counter_, active_, clog_, store_, wal_, vertices_, edges_,
                 vertex_generator_, edge_generator_, accessors, recovered, dir,
                 lock_, begins, applied, notified, auxVars>>

\* Counter, line 422-423: counters_.access().emplace(name, name, 0)
CounterEmplace(th, name) ==
  /\ threads[th].pc = "idle"
  /\ CallsMade < MaxCalls
  /\ counters_' = Emplace(counters_, name, 0)
  /\ SetThread(th, CounterFrame("fetch_add", "Counter", name, 0))
  /\ UNCHANGED <<counter_, active_, clog_, store_, wal_, vertices_, edges_,
                 vertex_generator_, edge_generator_, accessors, recovered, dir,
                 lock_, begins, applied, notified, auxVars>>

\* Counter, line 424: .first->second.fetch_add(1), and the return
CounterFetchAdd(th) ==
  /\ threads[th].pc = "fetch_add"
  /\ counters_' = [counters_ EXCEPT ![threads[th].name] = @ + 1]
  /\ returned' = Append(returned, CounterReturned(th, counters_[threads[th].name]))
  /\ SetThread(th, IdleThread)
  /\ UNCHANGED <<counter_, active_, clog_, store_, wal_, vertices_, edges_,
                 vertex_generator_, edge_generator_, accessors, recovered, dir,
                 lock_, begins, applied, notified, idxVars, mapVars, skiplist, miscVars>>

\* CounterSet, lines 428-430: emplace(name, name, value); the call is over
\* when the emplace created the counter
CounterSetEmplace(th, name, value) ==
  /\ threads[th].pc = "idle"
  /\ CallsMade < MaxCalls
  /\ counters_' = Emplace(counters_, name, value)
  /\ IF name \in DOMAIN counters_
       THEN /\ SetThread(th, CounterFrame("store", "CounterSet", name, value))
            /\ UNCHANGED returned
       ELSE /\ returned' = Append(returned, [op |-> "CounterSet", th |-> th,
                                             name |-> name, value |-> value])
            /\ UNCHANGED threads
  /\ UNCHANGED <<counter_, active_, clog_, store_, wal_, vertices_, edges_,
                 vertex_generator_, edge_generator_, accessors, recovered, dir,
                 lock_, begins, applied, notified, idxVars, mapVars, skiplist, miscVars>>

\* CounterSet, lines 430-431: if (!name_counter_pair.second) store(value)
CounterSetStore(th) ==
  /\ threads[th].pc = "store"
  /\ counters_' = [counters_ EXCEPT ![threads[th].name] = threads[th].value]
  /\ returned' = Append(returned, CounterReturned(th, threads[th].value))
  /\ SetThread(th, IdleThread)
  /\ UNCHANGED <<counter_, active_, clog_, store_, wal_, vertices_, edges_,
                 vertex_generator_, edge_generator_, accessors, recovered, dir,
                 lock_, begins, applied, notified, idxVars, mapVars, skiplist, miscVars>>

NextCounters ==
  \/ \E th \in Threads, name \in CounterNames : CounterEmplace(th, name)
  \/ \E th \in Threads : CounterFetchAdd(th)
  \/ \E th \in Threads, name \in CounterNames, value \in 0..MaxCounter :
       CounterSetEmplace(th, name, value)
  \/ \E th \in Threads : CounterSetStore(th)

SpecCounters == Init /\ [][NextCounters]_vars

\* ------------------------------------------------ the concurrent set test
\* The test of the concurrent set: every thread inserts and removes random
\* keys until op_per_thread of its operations have succeeded and keeps, per
\* key, its successful inserts minus its successful removes; the main
\* thread then adds the tallies up and compares them with the set.  The set
\* itself is not at hand: insert and remove are atomic, insert succeeds on
\* an absent key and remove on a present one.
KeyRange == 2      \* key_range, scaled down
OpPerThread == 3   \* op_per_thread, scaled down
SetKeys == 0..(KeyRange - 1)

SetFrame(pc, downcount, set) == [pc |-> pc, downcount |-> downcount, set |-> set]

\* the lambda starts: downcount = op_per_thread, set(key_range) all zero
SetThreadStart(th) ==
  /\ threads[th].pc = "idle"
  /\ returned = <<>>
  /\ SetThread(th, SetFrame("loop", OpPerThread, [k \in SetKeys |-> 0]))
  /\ UNCHANGED <<dbVars, accessors, recovered, dir, lock_, begins, applied,
                 notified, idxVars, mapVars, skiplist, returned, miscVars>>

\* one turn of the loop with rand_op() true: if (acc.remove(num))
SetRemove(th, num) ==
  /\ threads[th].pc = "loop" /\ threads[th].downcount > 0
  /\ skiplist' = skiplist \ {num}
  /\ IF num \in skiplist
       THEN SetThread(th, [threads[th] EXCEPT !.downcount = @ - 1,
                                              !.set[num] = @ - 1])
       ELSE UNCHANGED threads
  /\ UNCHANGED <<dbVars, accessors, recovered, dir, lock_, begins, applied,
                 notified, idxVars, mapVars, returned, miscVars>>

\* Faulty variant: the thread counts an insert whether it succeeded or not.
SetInsertCountsFailures(th, num) ==
  /\ threads[th].pc = "loop" /\ threads[th].downcount > 0
  /\ skiplist' = skiplist \cup {num}
  /\ SetThread(th, [threads[th] EXCEPT !.downcount = @ - 1, !.set[num] = @ + 1])
  /\ UNCHANGED <<dbVars, accessors, recovered, dir, lock_, begins, applied,
                 notified, idxVars, mapVars, returned, miscVars>>

\* one turn of the loop with rand_op() false: if (acc.insert(num).second)
SetInsert(th, num) ==
  /\ threads[th].pc = "loop" /\ threads[th].downcount > 0
  /\ skiplist' = skiplist \cup {num}
  /\ IF num \notin skiplist
       THEN SetThread(th, [threads[th] EXCEPT !.downcount = @ - 1,
                                              !.set[num] = @ + 1])
       ELSE UNCHANGED threads
  /\ UNCHANGED <<dbVars, accessors, recovered, dir, lock_, begins, applied,
                 notified, idxVars, mapVars, returned, miscVars>>

\* while (downcount > 0) ends: return set
SetThreadReturn(th) ==
  /\ threads[th].pc = "loop" /\ threads[th].downcount = 0
  /\ SetThread(th, [threads[th] EXCEPT !.pc = "done"])
  /\ UNCHANGED <<dbVars, accessors, recovered, dir, lock_, begins, applied,
                 notified, idxVars, mapVars, skiplist, returned, miscVars>>

\* the tallies of the threads 1..n for the key k, added up
RECURSIVE SetSum(_, _)
SetSum(k, n) ==
  IF n = 0 THEN 0
  ELSE SetSum(k, n - 1) + (IF threads[n].pc = "idle" THEN 0 ELSE threads[n].set[k])

\* the main thread: collect(futures), the sums, set[e]-- for every element
\* of the set; check_zero gets what is left
SetCollect ==
  /\ \A th \in Threads : threads[th].pc = "done"
  /\ returned = <<>>
  /\ returned' = <<[k \in SetKeys |->
                     SetSum(k, MaxThreads) - (IF k \in skiplist THEN 1 ELSE 0)]>>
  /\ UNCHANGED <<dbVars, accessors, recovered, dir, engVars, idxVars, mapVars, skiplist, miscVars>>

NextSet ==
  \/ \E th \in Threads : SetThreadStart(th)
  \/ \E th \in Threads, num \in SetKeys : SetRemove(th, num)
  \/ \E th \in Threads, num \in SetKeys : SetInsert(th, num)
  \/ \E th \in Threads : SetThreadReturn(th)
  \/ SetCollect

SpecSet == Init /\ [][NextSet]_vars

\* ------------------------------------------- VerticesCount with range bounds
\* The label-property index as the ordered container of the specification,
\* section 4.3: here the entries of a key are the sequence of the indexed
\* values in ascending order (a value per indexed vertex; Null is never
\* indexed).  LabelPropertyIndex is not at hand: Count and PositionAndCount
\* are modelled from the specification.
MaxValue == 3      \* property values 1..MaxValue; Null is below them
MaxEntries == 3    \* entries of the index
Null == 0          \* PropertyValue::Type::Null
Values == 1..MaxValue

\* std::experimental::optional<utils::Bound<PropertyValue>>
Nullopt == [has |-> FALSE, value |-> Null, inclusive |-> FALSE]
Bound(value, inclusive) == [has |-> TRUE, value |-> value, inclusive |-> inclusive]
Bounds == {Nullopt} \cup {Bound(v, i) : v \in {Null} \cup Values, i \in BOOLEAN}

\* LabelPropertyIndex::Count(key)
Count(entries) == Len(entries)

\* position of the first entry that is not below the value
LowerBoundPosition(entries, value) ==
  IF \E i \in DOMAIN entries : entries[i] >= value
    THEN Min({i \in DOMAIN entries : entries[i] >= value}) - 1
    ELSE Len(entries)

\* length of the run of entries equal to the value that starts after position p
EqualRunLength(entries, value, p) ==
  Cardinality({j \in DOMAIN entries :
                 j > p /\ \A k \in (p + 1)..j : entries[k] = value})

\* LabelPropertyIndex::PositionAndCount(key, value)
PositionAndCount(entries, value) ==
  [first |-> LowerBoundPosition(entries, value),
   second |-> EqualRunLength(entries, value, LowerBoundPosition(entries, value))]

\* std::max(0l, x)
Max0(x) == IF x < 0 THEN 0 ELSE x

\* Faulty variant: the result of the two-bound case is returned as computed
CountBetweenUnclamped(lower_pac, upper_pac, lower, upper) ==
  upper_pac.first - lower_pac.first
    - (IF ~lower.inclusive THEN lower_pac.second ELSE 0)
    + (IF upper.inclusive THEN upper_pac.second ELSE 0)

\* VerticesCount, both bounds given: lines 244-251
CountBetween(lower_pac, upper_pac, lower, upper) ==
  Max0(upper_pac.first - lower_pac.first
       - (IF ~lower.inclusive THEN lower_pac.second ELSE 0)
       + (IF upper.inclusive THEN upper_pac.second ELSE 0))

\* GraphDbAccessor::VerticesCount(label, property, lower, upper) on the
\* entries of the key: the count, or "CHECK failed"
VerticesCount(entries, lower, upper) ==
  IF ~lower.has /\ ~upper.has THEN "CHECK failed"
  ELSE IF lower.has /\ lower.value = Null THEN "CHECK failed"
  ELSE IF upper.has /\ upper.value = Null THEN "CHECK failed"
  ELSE IF ~upper.has
    THEN Max0(Count(entries) - PositionAndCount(entries, lower.value).first
              - (IF lower.inclusive
                   THEN 0
                   ELSE PositionAndCount(entries, lower.value).second))
  ELSE IF ~lower.has
    THEN IF upper.inclusive
           THEN PositionAndCount(entries, upper.value).first
                  + PositionAndCount(entries, upper.value).second
           ELSE PositionAndCount(entries, upper.value).first
  ELSE CountBetween(PositionAndCount(entries, lower.value),
                    PositionAndCount(entries, upper.value), lower, upper)

\* The index of the key is installed and finished, still empty
CountBuildIndex(key) ==
  /\ key \notin DOMAIN label_property_index_
  /\ label_property_index_' =
       (key :> [entries |-> <<>>, ready |-> TRUE]) @@ label_property_index_
  /\ UNCHANGED <<dbVars, accessors, recovered, dir, engVars,
                 index_build_tx_in_progress_, builds, mapVars, skiplist, returned, miscVars>>

\* A vertex with the label and a non-null value of the property is written:
\* the index gets an entry at the value's place in the order
CountUpdateIndex(key, value) ==
  /\ key \in DOMAIN label_property_index_
  /\ Len(label_property_index_[key].entries) < MaxEntries
  /\ label_property_index_' =
       [label_property_index_ EXCEPT ![key].entries =
          SubSeq(@, 1, LowerBoundPosition(@, value)) \o <<value>> \o
          SubSeq(@, LowerBoundPosition(@, value) + 1, Len(@))]
  /\ UNCHANGED <<dbVars, accessors, recovered, dir, engVars,
                 index_build_tx_in_progress_, builds, mapVars, skiplist, returned, miscVars>>

\* A call of VerticesCount(label, property, lower, upper); the DCHECK of
\* line 222 wants the index to exist.  `returned` holds the last call only,
\* with the entries the call found.
CallVerticesCount(key, lower, upper) ==
  /\ key \in DOMAIN label_property_index_
  /\ returned' = <<[op |-> "VerticesCount", key |-> key, lower |-> lower,
                    upper |-> upper,
                    entries |-> label_property_index_[key].entries,
                    res |-> VerticesCount(label_property_index_[key].entries,
                                          lower, upper)]>>
  /\ UNCHANGED <<dbVars, accessors, recovered, dir, engVars, idxVars, mapVars,
                 skiplist, miscVars>>

NextCount ==
  \/ CountBuildIndex(1)
  \/ \E value \in Values : CountUpdateIndex(1, value)
  \/ \E lower \in Bounds, upper \in Bounds : CallVerticesCount(1, lower, upper)

SpecCount == Init /\ [][NextCount]_vars

\* ------------------------------- WorkerCoordination::WaitForShutdown
\* The thread that calls WaitForShutdown and the threads of the RPC server
\* that run the StopWorkerRpc handler it registers.  mutex, cv and shutdown
\* are locals of the call, which the handler captures by reference: they
\* are gone when the call has returned, and what a handler does with them
\* from then on is undefined.
MaxRequests == 2   \* StopWorkerRpc requests the server gets
Waiter == MaxThreads + 1   \* the waiting thread, as a holder of the mutex

HandlerFrame(pc, set_at) == [pc |-> pc, set_at |-> set_at]

Requests == Cardinality({th \in Threads : threads[th].pc # "idle"}) + Len(returned)

shutdownVars == <<mutex, cv, shutdown, waiter>>
otherVars == <<dbVars, accessors, recovered, dir, lock_, begins, applied,
               notified, idxVars, mapVars, skiplist, timers, timer_objects,
               props>>

\* lines 34-44: the locals, and the handler registered with the server
WaitRegister ==
  /\ waiter = "idle"
  /\ waiter' = "lock"
  /\ mutex' = 0 /\ cv' = {} /\ shutdown' = FALSE
  /\ UNCHANGED <<otherVars, threads, returned>>

\* line 46: std::unique_lock<std::mutex> lk(mutex); also the lock the wait
\* takes again when the thread has been woken
WaitLock ==
  /\ waiter \in {"lock", "relock"}
  /\ mutex = 0
  /\ mutex' = Waiter
  /\ waiter' = "wait"
  /\ UNCHANGED <<otherVars, threads, returned, cv, shutdown>>

\* line 47: cv.wait(lk, pred) is while (!pred()) wait(lk): the flag is
\* read with the mutex held
WaitTest ==
  /\ waiter = "wait"
  /\ waiter' = IF shutdown THEN "sleep" ELSE "block"
  /\ UNCHANGED <<otherVars, threads, returned, mutex, cv, shutdown>>

\* wait(lk): the thread releases the mutex and blocks on cv, in one step
WaitBlock ==
  /\ waiter = "block"
  /\ waiter' = "blocked"
  /\ mutex' = 0
  /\ cv' = {Waiter}
  /\ UNCHANGED <<otherVars, threads, returned, shutdown>>

\* the blocked thread has been taken off cv by notify_one
WaitWoken ==
  /\ waiter = "blocked"
  /\ Waiter \notin cv
  /\ waiter' = "relock"
  /\ UNCHANGED <<otherVars, threads, returned, mutex, cv, shutdown>>

\* a spurious wake-up: the blocked thread goes on without a notification
WaitSpurious ==
  /\ waiter = "blocked"
  /\ Waiter \in cv
  /\ cv' = cv \ {Waiter}
  /\ waiter' = "relock"
  /\ UNCHANGED <<otherVars, threads, returned, mutex, shutdown>>

\* line 52: std::this_thread::sleep_for(100ms), with the mutex held
WaitSleep ==
  /\ waiter = "sleep"
  /\ waiter' = "return"
  /\ UNCHANGED <<otherVars, threads, returned, mutex, cv, shutdown>>

\* line 53: lk releases the mutex; cv, mutex and shutdown are destroyed
WaitReturn ==
  /\ waiter = "return"
  /\ waiter' = "returned"
  /\ mutex' = 0
  /\ UNCHANGED <<otherVars, threads, returned, cv, shutdown>>

\* the server gets a StopWorkerRpc request and a thread of it calls the
\* registered handler
StopWorkerRequest(th) ==
  /\ waiter # "idle"
  /\ threads[th].pc = "idle"
  /\ Requests < MaxRequests
  /\ SetThread(th, HandlerFrame("lock", "none"))
  /\ UNCHANGED <<otherVars, returned, shutdownVars>>

\* a handler that uses the locals of a call that has returned
HandlerDangles(th) ==
  /\ threads[th].pc \in {"lock", "set", "unlock", "notify"}
  /\ waiter = "returned"
  /\ SetThread(th, [threads[th] EXCEPT !.pc = "undefined"])
  /\ UNCHANGED <<otherVars, returned, shutdownVars>>

\* Faulty variant: the handler sets the flag without the mutex.
HandlerLockSkipped(th) ==
  /\ threads[th].pc = "lock"
  /\ waiter # "returned"
  /\ SetThread(th, [threads[th] EXCEPT !.pc = "set"])
  /\ UNCHANGED <<otherVars, returned, shutdownVars>>

\* line 39: std::unique_lock<std::mutex> lk(mutex)
HandlerLock(th) ==
  /\ threads[th].pc = "lock"
  /\ waiter # "returned"
  /\ mutex = 0
  /\ mutex' = th
  /\ SetThread(th, [threads[th] EXCEPT !.pc = "set"])
  /\ UNCHANGED <<otherVars, returned, cv, shutdown, waiter>>

\* line 40: shutdown = true
HandlerSet(th) ==
  /\ threads[th].pc = "set"
  /\ waiter # "returned"
  /\ shutdown' = TRUE
  /\ SetThread(th, [threads[th] EXCEPT !.pc = "unlock", !.set_at = waiter])
  /\ UNCHANGED <<otherVars, returned, mutex, cv, waiter>>

\* line 41: lk.unlock()
HandlerUnlock(th) ==
  /\ threads[th].pc = "unlock"
  /\ waiter # "returned"
  /\ mutex' = 0
  /\ SetThread(th, [threads[th] EXCEPT !.pc = "notify"])
  /\ UNCHANGED <<otherVars, returned, cv, shutdown, waiter>>

\* line 42: cv.notify_one()
HandlerNotify(th) ==
  /\ threads[th].pc = "notify"
  /\ waiter # "returned"
  /\ cv' = {}
  /\ SetThread(th, [threads[th] EXCEPT !.pc = "return"])
  /\ UNCHANGED <<otherVars, returned, mutex, shutdown, waiter>>

\* line 43: return std::make_unique<StopWorkerRes>(); the thread is free
\* for the next request
HandlerReturn(th) ==
  /\ threads[th].pc \in {"return", "undefined"}
  /\ returned' = Append(returned, [op |-> "StopWorkerRpc",
                                   res |-> IF threads[th].pc = "return"
                                             THEN "StopWorkerRes" ELSE "undefined",
                                   set_at |-> threads[th].set_at])
  /\ SetThread(th, IdleThread)
  /\ UNCHANGED <<otherVars, shutdownVars>>

WaiterSteps ==
  \/ WaitRegister
  \/ WaitLock
  \/ WaitTest
  \/ WaitBlock
  \/ WaitWoken
  \/ WaitSleep
  \/ WaitReturn

HandlerSteps(th) ==
  \/ HandlerDangles(th)
  \/ HandlerLock(th)
  \/ HandlerSet(th)
  \/ HandlerUnlock(th)
  \/ HandlerNotify(th)
  \/ HandlerReturn(th)

NextShutdown ==
  \/ WaitRegister
  \/ WaitLock
  \/ WaitTest
  \/ WaitBlock
  \/ WaitWoken
  \/ WaitSpurious
  \/ WaitSleep
  \/ WaitReturn
  \/ \E th \in Threads : StopWorkerRequest(th)
  \/ \E th \in Threads : HandlerDangles(th)
  \/ \E th \in Threads : HandlerLock(th)
  \/ \E th \in Threads : HandlerSet(th)
  \/ \E th \in Threads : HandlerUnlock(th)
  \/ \E th \in Threads : HandlerNotify(th)
  \/ \E th \in Threads : HandlerReturn(th)

SpecShutdown == Init /\ [][NextShutdown]_vars

\* The scheduler lets every thread that can take a step take one in the
\* end: the waiting thread and each thread of the server.  Spurious
\* wake-ups and the arrival of requests are not owed to anybody.
SpecShutdownFair ==
  /\ SpecShutdown
  /\ WF_vars(WaiterSteps)
  /\ \A th \in Threads : WF_vars(HandlerSteps(th))

\* ------------------------------------------------- Timer and TimerSet
\* The timers of a TimerSet.  A Timer is its counter, an int64_t scaled
\* down to TimerBits bits, and its handler, of which the calls are counted.
\* With every object go the history of its last add: the counter it had
\* then (n), the process() calls that found it in the set since (age), the
\* calls of its handler since (handled) and whether remove took it out.
TimerBits == 3     \* width of Timer::counter, scaled down from 64
MaxTimers == 2     \* Timer objects made
RECURSIVE Pow2(_)
Pow2(k) == IF k = 0 THEN 1 ELSE 2 * Pow2(k - 1)
TimerMin == 0 - Pow2(TimerBits - 1)      \* INT64_MIN
TimerMax == Pow2(TimerBits - 1) - 1      \* INT64_MAX
Counters == TimerMin..TimerMax

timerVars == <<timers, timer_objects>>
untimedVars == <<dbVars, accessors, recovered, dir, engVars, idxVars, mapVars,
                 skiplist, returned, mutex, cv, shutdown, waiter, props>>

\* Timer::Timer(counter, handler)
Timer(counter) ==
  [counter |-> counter, n |-> counter, age |-> 0, handled |-> 0,
   status |-> "new"]

\* --counter as the machine computes it: the smallest value wraps to the
\* largest
Decremented(counter) ==
  IF counter = TimerMin THEN TimerMax ELSE counter - 1

\* --counter on the smallest value is a signed overflow, for which the
\* language defines no outcome
Overflows(counter) == counter = TimerMin

\* Timer::operator--: if (--counter <= 0) return true; else return false,
\* where --counter is defined
TimerElapsed(counter) == Decremented(counter) <= 0

\* std::make_shared<Timer>(counter, handler)
NewTimer(counter) ==
  /\ Len(timer_objects) < MaxTimers
  /\ timer_objects' = Append(timer_objects, Timer(counter))
  /\ UNCHANGED <<untimedVars, timers>>

\* TimerSet::add: timers.insert(timer), which does nothing for a timer the
\* set holds
TimerSetAdd(timer) ==
  /\ timer \in DOMAIN timer_objects
  /\ timers' = timers \cup {timer}
  /\ timer_objects' =
       IF timer \in timers THEN timer_objects
       ELSE [timer_objects EXCEPT
               ![timer] = [Timer(@.counter) EXCEPT !.status = "added"]]
  /\ UNCHANGED untimedVars

\* TimerSet::remove: timers.erase(timer)
TimerSetRemove(timer) ==
  /\ timer \in DOMAIN timer_objects
  /\ timers' = timers \ {timer}
  /\ timer_objects' =
       IF timer \in timers
         THEN [timer_objects EXCEPT ![timer].status = "removed"]
         ELSE timer_objects
  /\ UNCHANGED untimedVars

\* TimerSet::size
TimerSetSize == Cardinality(timers)

\* TimerSet::process: every timer of the set is decremented; the handler of
\* an elapsed one is called and the timer erased.  elapsed_ub: the timers
\* among those whose decrement overflows that the build takes for elapsed.
TimerSetProcess(elapsed_ub) ==
  /\ elapsed_ub \subseteq {timer \in timers : Overflows(timer_objects[timer].counter)}
  /\ timers' = {timer \in timers :
                  IF Overflows(timer_objects[timer].counter)
                    THEN timer \notin elapsed_ub
                    ELSE ~TimerElapsed(timer_objects[timer].counter)}
  /\ timer_objects' =
       [timer \in DOMAIN timer_objects |->
          IF timer \notin timers THEN timer_objects[timer]
          ELSE [timer_objects[timer] EXCEPT
                  !.counter = Decremented(@),
                  !.age = @ + 1,
                  !.handled = IF timer \in timers' THEN @ ELSE @ + 1]]
  /\ UNCHANGED untimedVars

NextTimers ==
  \/ \E counter \in Counters : NewTimer(counter)
  \/ \E timer \in 1..MaxTimers : TimerSetAdd(timer)
  \/ \E timer \in 1..MaxTimers : TimerSetRemove(timer)
  \/ \E elapsed_ub \in SUBSET (1..MaxTimers) : TimerSetProcess(elapsed_ub)

SpecTimers == Init /\ [][NextTimers]_vars

\* ------------------------------------------------------------ Properties
\* The property map of a record: props, from key to shared pointer.  A
\* shared pointer is the value of the Property it points to, Nullptr when
\* it is empty.
MaxProperty == 2   \* the values a Property is constructed with: 1..MaxProperty
Nullptr == 0
PropertyKeys == {"name", "age"}
PropertyValues == 1..MaxProperty

unpropVars == <<dbVars, accessors, recovered, dir, engVars, idxVars, mapVars,
                skiplist, mutex, cv, shutdown, waiter, timers, timer_objects>>

\* std::move(value) as the argument a shared_ptr is constructed or assigned
\* from: the target gets the pointer, value is left empty
Moved(value) == [to |-> value, from |-> Nullptr]

\* Properties::at
PropertiesAt(p, key) == IF key \in DOMAIN p THEN p[key] ELSE Nullptr

\* props.emplace(pair): second is true and the pair is in the map when the
\* key was absent; the map is as it was when the key was present
MapEmplace(p, pair) ==
  IF pair[1] \in DOMAIN p
    THEN [map |-> p, second |-> FALSE]
    ELSE [map |-> [k \in DOMAIN p \cup {pair[1]} |->
                     IF k = pair[1] THEN pair[2] ELSE p[k]],
          second |-> TRUE]

\* Properties::put: props[key] = std::move(value)
PropertiesPut(p, key, value) ==
  [k \in DOMAIN p \cup {key} |-> IF k = key THEN Moved(value).to ELSE p[k]]

\* emplace, lines 33-37: return if the pair went in; else result.first->second
\* = std::move(value), with value as line 30 has left it
EmplaceAssign(result, key, value) ==
  IF result.second THEN result.map
  ELSE [result.map EXCEPT ![key] = Moved(value).to]

\* Properties::emplace<T>(key, args...): value = make_shared<T>(args...);
\* line 30 makes the pair from std::move(value), after which value is
\* empty
PropertiesEmplace(p, key, arg) ==
  EmplaceAssign(MapEmplace(p, <<key, Moved(arg).to>>), key, Moved(arg).from)

\* Properties::clear
PropertiesClear(p, key) == [k \in DOMAIN p \ {key} |-> p[k]]

CallEmplace(key, arg) ==
  /\ props' = PropertiesEmplace(props, key, arg)
  /\ returned' = <<[op |-> "emplace", key |-> key, value |-> arg,
                    before |-> props, res |-> Nullptr]>>
  /\ UNCHANGED unpropVars

CallPut(key, value) ==
  /\ props' = PropertiesPut(props, key, value)
  /\ returned' = <<[op |-> "put", key |-> key, value |-> value,
                    before |-> props, res |-> Nullptr]>>
  /\ UNCHANGED unpropVars

CallClear(key) ==
  /\ props' = PropertiesClear(props, key)
  /\ returned' = <<[op |-> "clear", key |-> key, value |-> Nullptr,
                    before |-> props, res |-> Nullptr]>>
  /\ UNCHANGED unpropVars

CallAt(key) ==
  /\ returned' = <<[op |-> "at", key |-> key, value |-> Nullptr,
                    before |-> props, res |-> PropertiesAt(props, key)]>>
  /\ UNCHANGED <<unpropVars, props>>

NextProperties ==
  \/ \E key \in PropertyKeys, arg \in PropertyValues : CallEmplace(key, arg)
  \/ \E key \in PropertyKeys, value \in PropertyValues : CallPut(key, value)
  \/ \E key \in PropertyKeys : CallClear(key)
  \/ \E key \in PropertyKeys : CallAt(key)

SpecProperties == Init /\ [][NextProperties]_vars

\* -------------------------------------------------- the engine's interface
\* C11: under any interleaving of concurrent Begin calls the ids they get are
\* never 0, pairwise distinct and strictly increasing in the order in which
\* the calls took the engine lock (a call that has not got its id yet is the
\* last one that took the lock); the transactions returned to the threads are
\* such ids, no id is returned to two threads, and LocalLast() is never
\* smaller than any of them.
BeginIdsIncreaseInLockOrder ==
  /\ \A i \in DOMAIN begins : begins[i] # 0
  /\ \A i \in DOMAIN begins : i < Len(begins) => begins[i] > 0
  /\ \A i, j \in DOMAIN begins : i < j /\ begins[j] > 0 => begins[i] < begins[j]
  /\ \A i \in DOMAIN begins : begins[i] <= LocalLast(DB)
  /\ \A th \in Threads : \A id \in threads[th].own :
       /\ id \in Range(begins)
       /\ id <= LocalLast(DB)
       /\ \A other \in Threads \ {th} : id \notin threads[other].own

\* both threads got a transaction from Begin, and a third Begin has its id
BeginIdsWitness ==
  /\ \A th \in Threads : threads[th].own # {}
  /\ Len(begins) = 3
  /\ begins[3] > 0

\* The place of a change of the active set in the order the engine applied
\* them (0: not applied)
AppliedPos(types, u) ==
  IF \E i \in DOMAIN applied : applied[i].tx = u /\ applied[i].type \in types
    THEN CHOOSE i \in DOMAIN applied : applied[i].tx = u /\ applied[i].type \in types
    ELSE 0

\* u was in the active set at the instant t was put into it
ActiveAtInstantOfBegin(u, t) ==
  /\ AppliedPos({"TxBegin"}, u) # 0
  /\ AppliedPos({"TxBegin"}, u) < AppliedPos({"TxBegin"}, t)
  /\ \/ AppliedPos({"TxCommit", "TxAbort"}, u) = 0
     \/ AppliedPos({"TxCommit", "TxAbort"}, u) > AppliedPos({"TxBegin"}, t)

\* C12: the snapshot of a transaction is exactly the set of the transactions
\* that were active at the instant of its Begin, it does not hold the
\* transaction's own id, all its members are smaller than that id, and no
\* step of any thread (a later Begin, Commit or Abort of any transaction)
\* changes it.
SnapshotIsActiveAtBegin ==
  /\ [](\A t \in DOMAIN store_ :
         /\ store_[t].snapshot = {u \in 1..counter_ : ActiveAtInstantOfBegin(u, t)}
         /\ t \notin store_[t].snapshot
         /\ \A u \in store_[t].snapshot : u < t)
  /\ [][\A t \in DOMAIN store_ :
          t \in DOMAIN store_' => store_'[t].snapshot = store_[t].snapshot]_vars

\* a transaction whose snapshot holds a transaction that has ended since,
\* with a transaction begun after it
SnapshotWitness ==
  \E t \in DOMAIN store_ :
    /\ \E u \in store_[t].snapshot : u \notin active_ /\ u \in DOMAIN clog_
    /\ counter_ > t
    /\ counter_ \in active_

\* C13: in the WAL, under any interleaving of concurrent Begin, Commit and
\* Abort calls, the TxBegin delta of a transaction precedes its TxCommit or
\* TxAbort delta, a transaction has at most one terminal delta (of the kind
\* the commit log holds for it), and the deltas stand in the order in which
\* the engine applied the changes to the active set: the WAL is the history
\* of these changes, less the one change whose delta the thread holding the
\* lock is about to append.
WalOrderIsApplyOrder ==
  /\ \A i \in DOMAIN wal_ :
       wal_[i].type \in {"TxCommit", "TxAbort"} =>
         /\ \E j \in 1..(i - 1) : wal_[j].type = "TxBegin" /\ wal_[j].tx = wal_[i].tx
         /\ \A j \in DOMAIN wal_ :
              wal_[j].tx = wal_[i].tx /\ wal_[j].type \in {"TxCommit", "TxAbort"}
                => j = i
         /\ Info(DB, wal_[i].tx) =
              (IF wal_[i].type = "TxCommit" THEN "committed" ELSE "aborted")
  /\ \A i, j \in DOMAIN wal_ :
       wal_[i].type = "TxBegin" /\ wal_[j].type = "TxBegin" /\ wal_[i].tx = wal_[j].tx
         => i = j
  /\ Len(wal_) <= Len(applied)
  /\ Len(applied) <= Len(wal_) + 1
  /\ \A i \in DOMAIN wal_ :
       wal_[i].type = applied[i].type /\ wal_[i].tx = applied[i].tx

\* the WAL holds the deltas of two transactions that overlapped, one
\* committed and one aborted by different threads
WalOrderWitness ==
  /\ Len(wal_) = 4
  /\ wal_[1].type = "TxBegin" /\ wal_[2].type = "TxBegin"
  /\ wal_[3].type = "TxCommit" /\ wal_[3].tx = 2
  /\ wal_[4].type = "TxAbort" /\ wal_[4].tx = 1
  /\ \A th \in Threads : threads[th].own = {}

\* C14: whenever GlobalGcSnapshot() runs (it takes the lock), the smallest id
\* of its result is less than or equal to the id of every active transaction
\* and to every id in the snapshot of any active transaction.
GcSnapshotBelowReaders ==
  lock_ = 0 =>
    \A t \in active_ :
      /\ Min(GlobalGcSnapshot(DB)) <= t
      /\ \A u \in store_[t].snapshot : Min(GlobalGcSnapshot(DB)) <= u

\* two active transactions, the oldest with a transaction in its snapshot
\* that has ended: the result starts below every active transaction
GcSnapshotWitness ==
  /\ lock_ = 0
  /\ Cardinality(active_) = 2
  /\ Min(GlobalGcSnapshot(DB)) < Min(active_)
  /\ Min(GlobalGcSnapshot(DB)) \in DOMAIN clog_

\* the transactions the history of the active set shows as begun and not ended
ActiveByHistory ==
  {t \in 1..counter_ :
     /\ AppliedPos({"TxBegin"}, t) # 0
     /\ AppliedPos({"TxCommit", "TxAbort"}, t) = 0}

\* the call of GlobalGcSnapshot th is in takes a step
GcSnapshotStep(th) ==
  /\ threads'[th] # threads[th]
  /\ "GlobalGcSnapshot" \in {threads[th].op, threads'[th].op}

\* C33: GlobalGcSnapshot returns {counter_ + 1} when no transaction is active,
\* and otherwise the set of the transactions that were active when the oldest
\* active transaction began (its snapshot) together with the id of that
\* transaction; no step of the call changes the counter, the active set, the
\* transaction store, the commit log or the WAL, and the lock is free again
\* when it has returned.
GcSnapshotIsOldestSnapshot ==
  [][\A th \in Threads :
       GcSnapshotStep(th) =>
         /\ UNCHANGED <<counter_, active_, clog_, store_, wal_>>
         /\ threads'[th].pc = "GcSnapshot:return" =>
              threads'[th].todo =
                IF ActiveByHistory = {}
                  THEN {counter_ + 1}
                  ELSE {u \in 1..counter_ :
                          ActiveAtInstantOfBegin(u, Min(ActiveByHistory))}
                       \cup {Min(ActiveByHistory)}
         /\ threads'[th].pc = "idle" => lock_' = 0]_vars

\* a call about to return the snapshot of the oldest of two active
\* transactions, which holds a transaction that has ended since
GcSnapshotReturnWitness ==
  \E th \in Threads :
    /\ threads[th].pc = "GcSnapshot:return"
    /\ active_ = {2, 3}
    /\ threads[th].todo = {1, 2}

\* C15: when the command id of a transaction equals the maximum command id,
\* Advance raises TransactionError and leaves the command id, the active
\* set, the commit log and the transaction store unchanged; the transaction
\* is still active and its thread still holds it, the lock is released, so
\* that a following Abort of it is possible, and that Abort ends the
\* transaction as aborted.
AdvanceAtMaxRaises ==
  /\ [](\A th \in Threads :
         threads[th].error = "TransactionError" =>
           \/ /\ threads[th].pc = "idle"
              /\ threads[th].tx \in threads[th].own
              /\ threads[th].tx \in active_
              /\ Info(DB, threads[th].tx) = "active"
              /\ store_[threads[th].tx].cid = CommandIdMax
              /\ lock_ = 0 => ENABLED EndLock(th, threads[th].tx, "Abort")
           \/ /\ threads[th].pc \in {"End:clog", "End:remove", "End:wal",
                                     "End:erase", "End:notify"}
              /\ threads[th].pc = "End:notify" =>
                   Info(DB, threads[th].tx) =
                     (IF threads[th].op = "Abort" THEN "aborted" ELSE "committed"))
  /\ [][\A th \in Threads :
          /\ threads[th].pc = "Advance"
          /\ threads'[th].pc # "Advance"
          /\ store_[threads[th].tx].cid = CommandIdMax
          => /\ threads'[th].error = "TransactionError"
             /\ threads'[th].ret = NONE
             /\ store_' = store_
             /\ active_' = active_
             /\ clog_' = clog_
             /\ lock_' = 0]_vars

\* Advance raised TransactionError and the thread then aborted the transaction
AdvanceAtMaxWitness ==
  \E th \in Threads :
    /\ threads[th].error = "TransactionError"
    /\ threads[th].pc = "End:notify"
    /\ threads[th].op = "Abort"
    /\ Info(DB, threads[th].tx) = "aborted"

\* C16: each call of Advance and each call of UpdateCommand on an active
\* transaction increases the command id of that transaction by one and
\* returns the new value, and no step decreases the command id of a
\* transaction.
CommandIdIncreasesByCall ==
  /\ [][\A th \in Threads :
          \/ /\ threads[th].pc = "Advance" /\ threads'[th].pc # "Advance"
             /\ threads'[th].error = "none"
          \/ threads[th].pc = "UpdateCommand" /\ threads'[th].pc # "UpdateCommand"
          => /\ store_'[threads[th].tx].cid = store_[threads[th].tx].cid + 1
             /\ threads'[th].ret = store_'[threads[th].tx].cid]_vars
  /\ [][\A t \in DOMAIN store_ :
          t \in DOMAIN store_' => store_'[t].cid >= store_[t].cid]_vars

\* the thread is inside Commit or Abort of tx
Ending(th, tx) ==
  /\ threads[th].tx = tx
  /\ threads[th].pc \in {"End:clog", "End:remove", "End:wal", "End:erase", "End:notify"}

\* C17: the listeners are notified exactly once per Commit or Abort: not
\* before the call has released the engine lock, removed the transaction
\* from the active set, set its commit log state to the terminal value,
\* appended its terminal delta to the WAL and erased its object from the
\* store, and not later than the return of the call; a listener that asks
\* the engine sees the transaction as not active.
ListenersNotifiedOnceAfterEnd ==
  /\ \A i, j \in DOMAIN notified : notified[i].tx = notified[j].tx => i = j
  /\ \A i \in DOMAIN notified :
       /\ ~notified[i].active
       /\ notified[i].info \in {"committed", "aborted"}
       /\ notified[i].logged
       /\ ~notified[i].stored
       /\ AppliedPos({"TxCommit", "TxAbort"}, notified[i].tx) # 0
  /\ \A th \in Threads :
       threads[th].pc = "End:notify" =>
         /\ lock_ # th
         /\ threads[th].tx \notin active_
         /\ Info(DB, threads[th].tx) =
              (IF threads[th].op = "Commit" THEN "committed" ELSE "aborted")
         /\ threads[th].tx \notin DOMAIN store_
         /\ \A i \in DOMAIN notified : notified[i].tx # threads[th].tx
  /\ \A tx \in DOMAIN clog_ :
       (\A th \in Threads : ~Ending(th, tx)) =>
         \E i \in DOMAIN notified : notified[i].tx = tx

\* the listeners were notified of a commit and of an abort
ListenersNotifiedWitness ==
  /\ Len(notified) = 2
  /\ notified[1].info = "aborted"
  /\ notified[2].info = "committed"

\* C18: no code of a caller runs while the engine lock is held: whenever the
\* callback passed to LocalForEachActiveTransaction runs in a thread, that
\* thread does not hold the lock, so that the engine operations the callback
\* calls can take it.
NoCallbackUnderLock ==
  \A th \in Threads : threads[th].pc = "f" => lock_ # th

\* an accessor after its Commit or Abort
AccessorEnded(t) == accessors[t].commited_ \/ accessors[t].aborted_

\* C20: an operation called on an accessor after its Commit or Abort is
\* rejected and has no effect: while every accessor there is has been
\* committed or aborted, a step that neither makes nor destroys an accessor
\* changes nothing of the database, and no FindVertex returns to it.
OperationsAfterEndRejected ==
  [][/\ DOMAIN accessors # {}
     /\ \A t \in DOMAIN accessors : AccessorEnded(t)
     /\ DOMAIN accessors' = DOMAIN accessors
     => /\ UNCHANGED dbVars
        /\ \A t \in DOMAIN accessors : accessors'[t].found = accessors[t].found]_vars

\* C37: whenever the engine lock is free, the keys of the transaction store
\* are the active set; every id of the active set lies between 1 and the
\* counter and the commit log reports it as neither committed nor aborted;
\* every other id between 1 and the counter is reported as committed or as
\* aborted, and not as both.
EngineConsistentWhenUnlocked ==
  lock_ = 0 =>
    /\ DOMAIN store_ = active_
    /\ \A id \in active_ :
         /\ 1 <= id /\ id <= counter_
         /\ Info(DB, id) \notin {"committed", "aborted"}
    /\ \A id \in (1..counter_) \ active_ :
         /\ Info(DB, id) \in {"committed", "aborted"}
         /\ ~(Info(DB, id) = "committed" /\ Info(DB, id) = "aborted")

\* the lock is free with one transaction active, one committed and one
\* aborted, while a thread is between the end of its Commit's critical
\* section and the notification of the listeners
EngineConsistentWitness ==
  /\ lock_ = 0
  /\ counter_ = 3
  /\ Cardinality(active_) = 1
  /\ \E id \in 1..counter_ : Info(DB, id) = "committed"
  /\ \E id \in 1..counter_ : Info(DB, id) = "aborted"
  /\ \E th \in Threads : threads[th].pc = "End:notify"

\* ------------------------------------------------------- the storage API
\* the vertex v has an incident edge in the newest view of t
HasEdges(t, v) ==
  \/ CurVertex(DB, t, v).data.out # {}
  \/ CurVertex(DB, t, v).data.in # {}

\* C21 as stated: RemoveVertex on a vertex that has an incident edge in the
\* newest view of the calling transaction returns false, expires no version
\* and appends no delta (the database is as before).
RemoveVertexWithEdgesRefused ==
  \A t \in DOMAIN accessors, v \in DOMAIN vertices_ :
    CanWork(t) /\ Holds(vertices_[v], t) /\ HasEdges(t, v)
      => RemoveVertex(DB, t, v) = Ret(DB, "false")

\* C21, amended: RemoveVertex on a vertex with an incident edge in the newest
\* view of the calling transaction changes nothing of the database (no
\* version expired, no delta appended); it returns false, unless the calling
\* transaction has expired the vertex itself before, in which case it
\* returns true.
RemoveVertexWithEdgesNoEffect ==
  \A t \in DOMAIN accessors, v \in DOMAIN vertices_ :
    CanWork(t) /\ Holds(vertices_[v], t) /\ HasEdges(t, v)
      => RemoveVertex(DB, t, v) =
           Ret(DB, IF CurVertex(DB, t, v).exp = t THEN "true" ELSE "false")

\* a transaction holds a vertex with an incident edge that it has not expired
RemoveVertexWithEdgesWitness ==
  \E t \in DOMAIN accessors, v \in DOMAIN vertices_ :
    /\ CanWork(t) /\ Holds(vertices_[v], t) /\ HasEdges(t, v)
    /\ CurVertex(DB, t, v).exp # t
    /\ RemoveVertex(DB, t, v).res = "false"

\* ------------------------------------------------------------ the indexes
\* the BuildIndex call that installed the index of key has returned
BuildReturned(key) ==
  /\ key \in DOMAIN label_property_index_
  /\ label_property_index_[key].ready
  /\ \E t \in DOMAIN builds : builds[t].key = key /\ builds[t].pc = "returned"

\* the vertex g was written by a transaction that committed
CommittedVertex(g) == Info(DB, vertices_[g][1].cre) = "committed"

\* C22: every committed vertex (all of them have the label and a value of the
\* property) is reachable through every index whose BuildIndex has returned,
\* whoever wrote it: a transaction that ran concurrently with the build or
\* the transaction that called BuildIndex.
IndexHoldsEveryCommittedVertex ==
  \A key \in DOMAIN label_property_index_, g \in DOMAIN vertices_ :
    BuildReturned(key) /\ CommittedVertex(g)
      => g \in label_property_index_[key].entries

\* the reader transaction of the BuildIndex call of t has begun and not ended
ReaderRuns(t) == builds[t].pc \in {"insert", "scan", "commit"}

\* C23: once the reader transaction of a BuildIndex call has begun, the index
\* is installed and every transaction of the active set captured after the
\* installation has committed or aborted, unless the wait loop found it in
\* the index-building set; hence every transaction that is still active
\* (that can still write) began after the index was installed or is an
\* index builder, one the loop found in the index-building set.
ReaderBeginsAfterWait ==
  \A t \in DOMAIN builds :
    ReaderRuns(t) =>
      /\ builds[t].key \in DOMAIN label_property_index_
      /\ \A u \in builds[t].wait :
           u \in builds[t].skipped \/ ~GlobalIsActive(DB, u)
      /\ \A u \in active_ :
           u > builds[t].installed \/ u \in builds[t].skipped

\* a reader has begun after its builder waited for a transaction that was
\* not an index builder
ReaderBeginsWitness ==
  \E t \in DOMAIN builds :
    /\ builds[t].pc = "insert"
    /\ builds[t].wait \ builds[t].skipped # {}
    /\ t \in builds[t].skipped

BuildExits(t) ==
  /\ Building(t)
  /\ builds'[t].pc \in {"raised", "returned"}

\* C25: a BuildIndex call that finds the index of its key installed (finished
\* or being built) raises IndexExistsError at once: it has waited for no
\* transaction and begun no reader, and the step changes neither the engine
\* nor the WAL (no reader transaction, no BuildIndex delta) nor the indexes;
\* and whenever a call exits, by return or by error, the caller is out of
\* the index-building set and its transaction is still active.
BuildOnExistingKeyRaises ==
  [][\A t \in DOMAIN builds :
       /\ ( /\ Building(t) /\ builds[t].pc = "create"
            /\ builds[t].key \in DOMAIN label_property_index_
            /\ builds'[t] # builds[t] )
          => /\ builds'[t].pc = "raised"
             /\ accessors'[t].error = "IndexExistsError"
             /\ builds[t].wait = {} /\ builds[t].cur = 0 /\ builds[t].reader = 0
             /\ UNCHANGED dbVars
             /\ label_property_index_' = label_property_index_
       /\ builds'[t].pc = "raised" /\ builds[t].pc # "raised"
          => /\ builds[t].pc = "create"
             /\ builds[t].key \in DOMAIN label_property_index_
       /\ BuildExits(t)
          => /\ t \notin index_build_tx_in_progress_'
             /\ t \in active_'
             /\ ~accessors'[t].commited_ /\ ~accessors'[t].aborted_]_vars

\* a call has raised IndexExistsError on a key whose index another call is
\* still building
BuildOnExistingKeyWitness ==
  \E t \in DOMAIN builds :
    /\ builds[t].pc = "raised"
    /\ accessors[t].error = "IndexExistsError"
    /\ ~label_property_index_[builds[t].key].ready
    /\ t \in active_

\* ------------------------------------------------------- the name mapper
\* the finished NameToId calls
NameToIdCalls == {i \in DOMAIN returned : returned[i].op = "NameToId"}

\* C26: NameToId is idempotent (all finished calls with one name returned one
\* id), and from the return of NameToId(s) = id on IdToName(id) succeeds and
\* yields s, in the thread that called NameToId and in every other thread.
NameIdRoundTrip ==
  \A i \in NameToIdCalls :
    /\ IdToName(returned[i].id) = returned[i].name
    /\ \A j \in NameToIdCalls :
         returned[j].name = returned[i].name => returned[j].id = returned[i].id
    /\ \A j \in DOMAIN returned :
         j > i /\ returned[j].op = "IdToName" /\ returned[j].id = returned[i].id
           => returned[j].name = returned[i].name

\* a thread got an id of another thread's insertion, and a third call asked
\* for the name of the id
NameIdRoundTripWitness ==
  \E i \in NameToIdCalls, j \in DOMAIN returned :
    /\ returned[i].new_id = NONE
    /\ j > i /\ returned[j].op = "IdToName" /\ returned[j].th # returned[i].th
    /\ returned[j].id = returned[i].id
    /\ returned[j].name = returned[i].name

\* the call of thread th has taken a counter value it does not return
LostRace(f) == f.new_id # NONE /\ f.id # NONE /\ f.new_id # f.id

\* C27: under every interleaving the finished NameToId calls returned the
\* same id exactly for the same name; a call that lost the insertion race
\* took one counter value, which is mapped to no name: the counter is the
\* number of mapped names plus the lost races plus the values taken and not
\* yet inserted.
NameToIdAgreesUnderRaces ==
  /\ \A i \in NameToIdCalls, j \in NameToIdCalls :
       (returned[i].name = returned[j].name) <=> (returned[i].id = returned[j].id)
  /\ \A i \in NameToIdCalls :
       LostRace(returned[i]) =>
         /\ returned[i].new_id \notin DOMAIN id_to_name_
         /\ returned[i].new_id \notin Range(name_to_id_)
  /\ mapper_counter_ =
       Cardinality(DOMAIN name_to_id_)
       + Cardinality({i \in NameToIdCalls : LostRace(returned[i])})
       + Cardinality({th \in Threads :
                        \/ threads[th].pc = "insert"
                        \/ /\ threads[th].pc \in {"id_to_name", "return"}
                           /\ LostRace(threads[th])})

\* a call lost the insertion race, and calls for two names have returned
LostRaceWitness ==
  \E i \in NameToIdCalls, j \in NameToIdCalls :
    /\ LostRace(returned[i])
    /\ returned[j].name # returned[i].name

\* ------------------------------------------------------ the named counters
\* the finished calls on the counter `name` of the operation op, in the
\* order in which they took effect
CounterCalls(op, name) ==
  {i \in DOMAIN returned : returned[i].op = op /\ returned[i].name = name}

\* no CounterSet on the counter `name` has been called
NeverSet(name) ==
  /\ CounterCalls("CounterSet", name) = {}
  /\ \A th \in Threads :
       ~(threads[th].pc = "store" /\ threads[th].name = name)

\* C28: for each counter name, as long as no CounterSet was called on it, the
\* n finished Counter calls returned the values 0..n-1 once each, whichever
\* threads made them and created the counter; and the first Counter call to
\* take effect after a CounterSet(name, v) returns v.
CounterValuesConsecutive ==
  \A name \in CounterNames :
    /\ NeverSet(name) =>
         /\ \A i \in CounterCalls("Counter", name), j \in CounterCalls("Counter", name) :
              i # j => returned[i].value # returned[j].value
         /\ {returned[i].value : i \in CounterCalls("Counter", name)}
              = 0..(Cardinality(CounterCalls("Counter", name)) - 1)
    /\ \A i \in CounterCalls("CounterSet", name), j \in CounterCalls("Counter", name) :
         /\ i < j
         /\ \A k \in (i+1)..(j-1) : returned[k].name # name
         => returned[j].value = returned[i].value

\* two threads have got 0 and 1 from a counter both were creating at the
\* same time, and a Counter call after a CounterSet(name, 2) has returned
CounterValuesWitness ==
  /\ \E i \in CounterCalls("Counter", "c"), j \in CounterCalls("Counter", "c") :
       /\ returned[i].th # returned[j].th
       /\ returned[i].value = 0 /\ returned[j].value = 1
       /\ NeverSet("c")
  /\ \E i \in CounterCalls("CounterSet", "d"), j \in CounterCalls("Counter", "d") :
       i < j /\ returned[i].value = 2 /\ returned[j].value = 2

AboveLower(value, lower) ==
  ~lower.has \/ value > lower.value \/ (lower.inclusive /\ value = lower.value)
BelowUpper(value, upper) ==
  ~upper.has \/ value < upper.value \/ (upper.inclusive /\ value = upper.value)

\* the entries of the index that lie within the bounds
Within(entries, lower, upper) ==
  {i \in DOMAIN entries :
     AboveLower(entries[i], lower) /\ BelowUpper(entries[i], upper)}

VerticesCountCalls ==
  {i \in DOMAIN returned : returned[i].op = "VerticesCount"}

\* C32: on an index whose entries are in ascending order of value,
\* VerticesCount(label, property, lower, upper) fails its CHECK when no bound
\* is given or a given bound is Null; otherwise it returns the number of
\* entries within the inclusive or exclusive bounds given, which is 0 when
\* the lower bound lies above the upper one, and never a negative number.
VerticesCountCountsRange ==
  \A i \in VerticesCountCalls :
    LET r == returned[i]
        entries == r.entries
    IN IF (~r.lower.has /\ ~r.upper.has)
            \/ (r.lower.has /\ r.lower.value = Null)
            \/ (r.upper.has /\ r.upper.value = Null)
         THEN r.res = "CHECK failed"
         ELSE /\ r.res \in Nat
              /\ r.res = Cardinality(Within(entries, r.lower, r.upper))
              /\ (r.lower.has /\ r.upper.has /\ r.lower.value > r.upper.value
                    => r.res = 0)

\* a count between an exclusive lower and an inclusive upper bound that leaves
\* out entries on both sides and the entries equal to the lower bound
VerticesCountWitness ==
  \E i \in VerticesCountCalls :
    /\ returned[i].lower = Bound(1, FALSE)
    /\ returned[i].upper = Bound(2, TRUE)
    /\ returned[i].entries = <<1, 2, 3>>
    /\ returned[i].res = 1

\* ------------------------------------------------------------ properties
\* The history, read off the WAL: every Begin, Commit and Abort of the engine
\* appends its delta at the moment it happens.
BeginPos(u) ==
  CHOOSE i \in 1..Len(wal_) : wal_[i].type = "TxBegin" /\ wal_[i].tx = u

Ended(u) ==
  \E i \in 1..Len(wal_) : wal_[i].tx = u /\ wal_[i].type \in {"TxCommit", "TxAbort"}

EndPos(u) ==
  CHOOSE i \in 1..Len(wal_) : wal_[i].tx = u /\ wal_[i].type \in {"TxCommit", "TxAbort"}

\* The state of a transaction according to the history
HistoryState(id) ==
  IF ~Ended(id) THEN "active"
  ELSE IF wal_[EndPos(id)].type = "TxCommit" THEN "committed" ELSE "aborted"

\* u was active when t began
ActiveAtBegin(u, t) ==
  /\ BeginPos(u) < BeginPos(t)
  /\ Ended(u) => EndPos(u) > BeginPos(t)

\* u committed before t began
CommittedBeforeBegin(u, t) ==
  /\ Ended(u)
  /\ wal_[EndPos(u)].type = "TxCommit"
  /\ EndPos(u) < BeginPos(t)

BeganAfter(u, t) == BeginPos(u) > BeginPos(t)

\* the terminal deltas of t in the WAL
TerminalDeltas(t) ==
  {i \in DOMAIN wal_ : wal_[i].tx = t /\ wal_[i].type \in {"TxCommit", "TxAbort"}}

\* C19: when an accessor that was neither committed nor aborted is destroyed,
\* its transaction is aborted (removed from the active set, marked aborted,
\* TxAbort written); the destruction of an accessor that was committed or
\* aborted changes nothing of the engine; so the transaction of every
\* accessor that is gone was ended by the engine exactly once.
DestructorAbortsUnended ==
  /\ [][\A t \in DOMAIN accessors :
          t \notin DOMAIN accessors' =>
            IF ~accessors[t].commited_ /\ ~accessors[t].aborted_
              THEN /\ t \in active_ /\ t \notin active_'
                   /\ Info(DB, t) = "active"
                   /\ clog_' = (t :> "aborted") @@ clog_
                   /\ wal_' = Append(wal_, Delta("TxAbort", t, NONE, NONE, NONE))
                   /\ t \notin DOMAIN store_'
              ELSE UNCHANGED <<active_, clog_, wal_, store_>>]_vars
  /\ [](\A t \in 1..counter_ :
         /\ Cardinality(TerminalDeltas(t)) <= 1
         /\ t \notin DOMAIN accessors => Cardinality(TerminalDeltas(t)) = 1)

\* three accessors are gone: one was committed, two ended aborted
DestructorWitness ==
  /\ counter_ = 3
  /\ accessors = <<>>
  /\ HistoryState(1) = "aborted"
  /\ HistoryState(2) = "committed"
  /\ HistoryState(3) = "aborted"
  /\ Len(wal_) = 6

\* The version lists of the storage and the transactions that can read
Lists ==
  {vertices_[g] : g \in DOMAIN vertices_} \cup {edges_[e] : e \in DOMAIN edges_}

Readers == DOMAIN store_

\* u removed the record of vl: it expired a version and left no successor
RemovedBy(vl, u) ==
  \E i \in 1..Len(vl) :
    /\ vl[i].exp = u
    /\ (vl[i].cre = u \/ \A j \in 1..Len(vl) : vl[j].cre # u)

\* The reader (t, c): t at its command c.
ReaderAt(t, c) == [DB EXCEPT !.store[t].cid = c]

\* The stamp (u, cmd) is one the reader (t, c) sees, by the history: u
\* committed before t began, or it is a command of t up to c.
StampSeen(u, cmd, t, c) ==
  IF u = t THEN cmd <= c ELSE u \in 1..counter_ /\ CommittedBeforeBegin(u, t)

\* The version i of vl was removed: its expirer left no version of its own
\* after it.
IsRemoval(vl, i) ==
  /\ vl[i].exp # 0
  /\ (vl[i].cre = vl[i].exp \/ \A j \in 1..Len(vl) : vl[j].cre # vl[i].exp)

\* The record of vl exists for the reader (t, c): the reader sees its
\* insertion and sees no removal of it.
ExistsFor(vl, t, c) ==
  /\ StampSeen(vl[Len(vl)].cre, vl[Len(vl)].cmd_cre, t, c)
  /\ \A i \in 1..Len(vl) :
       IsRemoval(vl, i) => ~StampSeen(vl[i].exp, vl[i].cmd_exp, t, c)

VisibleTo(vl, t, c) == {i \in 1..Len(vl) : Visible(ReaderAt(t, c), vl[i], t)}

\* C30: for every version list and every reader (a transaction at one of its
\* commands) at most one version of the chain is visible, exactly one when
\* the record exists for the reader and none when it does not, which is
\* what FindVertex and FindEdge return; and a version is not visible when
\* the transaction that set its expiration stamp is visible to the reader.
OneVersionVisible ==
  \A t \in Readers :
    /\ \A c \in 1..store_[t].cid : \A vl \in Lists :
         /\ Cardinality(VisibleTo(vl, t, c)) <= 1
         /\ ExistsFor(vl, t, c) <=> Cardinality(VisibleTo(vl, t, c)) = 1
         /\ \A i \in 1..Len(vl) :
              vl[i].exp # 0 /\ StampSeen(vl[i].exp, vl[i].cmd_exp, t, c)
                => i \notin VisibleTo(vl, t, c)
    /\ \A g \in DOMAIN vertices_ :
         FindVertex(DB, t, g, FALSE) <=> ExistsFor(vertices_[g], t, store_[t].cid)
    /\ \A e \in DOMAIN edges_ :
         FindEdge(DB, t, e, FALSE) <=> ExistsFor(edges_[e], t, store_[t].cid)

\* a transaction at its second command and a chain of two versions, of
\* which it sees the older one at its first command and, having expired
\* that one at its second command, the newer one from then on
OneVersionVisibleWitness ==
  \E t \in Readers : \E vl \in Lists :
    /\ store_[t].cid = 2
    /\ Len(vl) = 2
    /\ vl[2].exp = t /\ vl[2].cre # t
    /\ VisibleTo(vl, t, 1) = {2}
    /\ VisibleTo(vl, t, 2) = {1}

\* C1: snapshot isolation.  For every reader t, a version whose creator was
\* active when t began is not visible to t, whether or not the creator has
\* committed since; FindVertex, FindEdge and Vertices do not return to t a
\* record all of whose versions were created by such transactions.
SnapshotIsolation ==
  \A t \in Readers :
    /\ \A vl \in Lists : \A i \in 1..Len(vl) :
         ActiveAtBegin(vl[i].cre, t) => ~Visible(DB, vl[i], t)
    /\ \A g \in DOMAIN vertices_ :
         (\A i \in 1..Len(vertices_[g]) : ActiveAtBegin(vertices_[g][i].cre, t))
           => /\ ~FindVertex(DB, t, g, FALSE)
              /\ ~FindVertex(DB, t, g, TRUE)
              /\ g \notin Vertices(DB, t, FALSE) \cup Vertices(DB, t, TRUE)
    /\ \A e \in DOMAIN edges_ :
         (\A i \in 1..Len(edges_[e]) : ActiveAtBegin(edges_[e][i].cre, t))
           => /\ ~FindEdge(DB, t, e, FALSE)
              /\ ~FindEdge(DB, t, e, TRUE)

\* a reader and a version whose creator was active when the reader began and
\* has committed during the reader's lifetime
SnapshotIsolationWitness ==
  \E t \in Readers : \E vl \in Lists : \E i \in 1..Len(vl) :
    /\ ActiveAtBegin(vl[i].cre, t)
    /\ Info(DB, vl[i].cre) = "committed"

Writers(vl, i) ==
  {u \in 1..counter_ :
     \/ vl[i].exp = u
     \/ \E j \in 1..Len(vl) : vl[j].cre = u /\ vl[j].prev = vl[i].cre}

AtMostOneWriter ==
  \A vl \in Lists : \A i \in 1..Len(vl) :
    Cardinality({u \in Writers(vl, i) : Info(DB, u) # "aborted"}) <= 1

\* C3: write-write conflict.  No version ever has two writers (updaters or
\* removers) that are not aborted, so at most one of two concurrent writers
\* of a version commits its write; and an operation raises
\* SerializationError only when it met a version that another transaction,
\* not aborted, had expired before.
WriteWriteConflict ==
  /\ []AtMostOneWriter
  /\ [][\A t \in DOMAIN accessors :
          (/\ t \in DOMAIN accessors'
           /\ accessors[t].error = "none"
           /\ accessors'[t].error = "SerializationError")
            => \E vl \in Lists : \E i \in 1..Len(vl) :
                 /\ vl[i].exp \notin {0, t}
                 /\ Info(DB, vl[i].exp) # "aborted"]_vars

\* the loser got SerializationError while the winner is still active
WriteWriteConflictWitness ==
  \E t \in DOMAIN accessors : \E vl \in Lists : \E i \in 1..Len(vl) :
    /\ accessors[t].error = "SerializationError"
    /\ vl[i].exp \in Readers \ {t}
    /\ t \in Readers

\* C4 as the specification states it: a visible version's creator is
\* committed and not in the reader's snapshot; its expirer, if set, is
\* aborted, or active and not the reader, or the reader at a later command.
VisibleImpliesCommittedCreator ==
  \A t \in Readers : \A vl \in Lists : \A i \in 1..Len(vl) :
    Visible(DB, vl[i], t) =>
      /\ Info(DB, vl[i].cre) = "committed"
      /\ vl[i].cre \notin store_[t].snapshot
      /\ \/ vl[i].exp = 0
         \/ Info(DB, vl[i].exp) = "aborted"
         \/ (Info(DB, vl[i].exp) = "active" /\ vl[i].exp # t)
         \/ (vl[i].exp = t /\ vl[i].cmd_exp > store_[t].cid)

\* C4, amended: a visible version's creator is the reader itself (at a
\* command not later than its current one), or committed and not in the
\* reader's snapshot; its expirer, if set, is aborted, or active and not the
\* reader, or the reader at a later command, or committed but in the
\* reader's snapshot or begun after the reader.  Committed, aborted and
\* active are what the history of Begin, Commit and Abort says.
VisibleImpliesAmended ==
  \A t \in Readers : \A vl \in Lists : \A i \in 1..Len(vl) :
    Visible(DB, vl[i], t) =>
      /\ \/ (vl[i].cre = t /\ vl[i].cmd_cre <= store_[t].cid)
         \/ /\ HistoryState(vl[i].cre) = "committed"
            /\ vl[i].cre \notin store_[t].snapshot
      /\ \/ vl[i].exp = 0
         \/ HistoryState(vl[i].exp) = "aborted"
         \/ (HistoryState(vl[i].exp) = "active" /\ vl[i].exp # t)
         \/ (vl[i].exp = t /\ vl[i].cmd_exp > store_[t].cid)
         \/ /\ HistoryState(vl[i].exp) = "committed"
            /\ (vl[i].exp \in store_[t].snapshot \/ vl[i].exp > t)

\* a reader sees a version it created itself, and a reader sees a version
\* whose expirer has committed
VisibleOwnWitness ==
  /\ \E t \in Readers : \E vl \in Lists : \E i \in 1..Len(vl) :
       Visible(DB, vl[i], t) /\ vl[i].cre = t
  /\ \E t \in Readers : \E vl \in Lists : \E i \in 1..Len(vl) :
       /\ Visible(DB, vl[i], t)
       /\ vl[i].exp # 0
       /\ Info(DB, vl[i].exp) = "committed"

\* Every begun transaction is active exactly until its Commit or Abort, and
\* Commit/Abort happens at most once per transaction.
StateFollowsHistory ==
  \A id \in 1..counter_ :
    /\ Info(DB, id) = HistoryState(id)
    /\ (id \in active_) <=> (Info(DB, id) = "active")
    /\ Cardinality({i \in 1..Len(wal_) :
                      wal_[i].tx = id /\ wal_[i].type \in {"TxCommit", "TxAbort"}}) <= 1

\* C10: a transaction is ACTIVE from Begin until its first Commit or Abort,
\* and from then on stays in the one of COMMITTED or ABORTED it reached: no
\* step changes the commit-log state of a committed or aborted transaction
\* or puts its id back into the active set.
TerminalStatesAbsorbing ==
  /\ []StateFollowsHistory
  /\ [][\A id \in 1..counter_ :
          Info(DB, id) # "active" =>
            /\ Info(DB, id)' = Info(DB, id)
            /\ id \notin active_']_vars

\* a committed transaction whose accessor has been destroyed, and an aborted one
TerminalStatesWitness ==
  /\ \E id \in 1..counter_ :
       Info(DB, id) = "committed" /\ id \notin DOMAIN accessors
  /\ \E id \in 1..counter_ :
       Info(DB, id) = "aborted" /\ id \notin DOMAIN accessors

\* ---- within one transaction
\* The version the vertex was inserted with (the oldest of its list)
Inserted(g) == vertices_[g][Len(vertices_[g])]

\* t inserted vertex g at a command before its current one and has not
\* removed it since
InsertedEarlierBy(t, g) ==
  /\ Inserted(g).cre = t
  /\ Inserted(g).cmd_cre < store_[t].cid
  /\ \A i \in 1..Len(vertices_[g]) : vertices_[g][i].exp # t

\* C31: within one transaction, once AdvanceCommand has been called every
\* vertex the transaction inserted at an earlier command is in its old-state
\* scan Vertices(false), at that command and at every later one, for as long
\* as the transaction itself has not removed the vertex.
OwnInsertsVisibleAfterAdvance ==
  \A t \in DOMAIN store_ : \A g \in DOMAIN vertices_ :
    InsertedEarlierBy(t, g) => g \in Vertices(DB, t, FALSE)

\* a transaction at its second command scans the vertex it inserted at its
\* first, while another transaction that is active does not see it
OwnInsertsWitness ==
  \E t \in DOMAIN store_ : \E u \in DOMAIN store_ : \E g \in DOMAIN vertices_ :
    /\ u # t
    /\ store_[t].cid = 2
    /\ InsertedEarlierBy(t, g)
    /\ g \in Vertices(DB, t, FALSE)
    /\ g \notin Vertices(DB, u, FALSE)

\* ---- removals
\* t holds an accessor of the record and its current version is expired by t
ExpiredBySelf(vl, t) == Holds(vl, t) /\ vl[CurIdx(DB, vl, t)].exp = t

\* C34: a removal of a record the calling transaction has expired already
\* changes nothing: RemoveVertex returns true, DetachRemoveVertex and
\* RemoveEdge return, and the version lists, the adjacency lists in them and
\* the WAL are what they were before the call.
RemovalIsIdempotent ==
  \A t \in DOMAIN accessors :
    CanWork(t) =>
      /\ \A v \in DOMAIN vertices_ :
           ExpiredBySelf(vertices_[v], t) =>
             /\ RemoveVertex(DB, t, v) = Ret(DB, "true")
             /\ DetachRemoveVertex(DB, t, v) = Ret(DB, "ok")
      /\ \A e \in DOMAIN edges_ :
           ExpiredBySelf(edges_[e], t) =>
             RemoveEdge(DB, t, e, TRUE, TRUE) = Ret(DB, "ok")

\* a transaction that has expired a vertex and an edge that the vertex still
\* lists among its incoming edges
RemovalIdempotentWitness ==
  \E t \in DOMAIN accessors : \E v \in DOMAIN vertices_ : \E e \in DOMAIN edges_ :
    /\ CanWork(t)
    /\ ExpiredBySelf(vertices_[v], t)
    /\ ExpiredBySelf(edges_[e], t)
    /\ e \in CurVertex(DB, t, v).data.in

\* ---- edges and their vertices
\* t's call of InsertEdge(from, to) returns the edge
InsertEdgeSucceeds(t, from, to) ==
  CallInsertEdge(t, from, to) /\ accessors'[t].error = "none"

\* t's call of DetachRemoveVertex(v) returns
DetachRemoveVertexSucceeds(t, v) ==
  CallDetachRemoveVertex(t, v) /\ accessors'[t].error = "none"

\* the edges the vertex lists, in the view of t
Incident(t, v) == CurVertex(DB, t, v).data.in \cup CurVertex(DB, t, v).data.out

\* C35: after a successful InsertEdge(from, to) the version list of the new
\* edge is in the edge map, the newest version of `from` lists the edge among
\* its outgoing edges and the newest version of `to` lists it among its
\* incoming edges, also when from and to are one vertex; after a successful
\* DetachRemoveVertex(v) the vertex and every edge that was incident to it are
\* expired by the calling transaction.
EdgesLinkedAndDetached ==
  [][\A t \in DOMAIN accessors : \A v \in DOMAIN vertices_ :
       /\ \A to \in DOMAIN vertices_ :
            InsertEdgeSucceeds(t, v, to) =>
              /\ edge_generator_ \in DOMAIN edges_'
              /\ edges_'[edge_generator_][1].data = EdgeData(v, to)
              /\ edge_generator_ \in vertices_'[v][1].data.out
              /\ edge_generator_ \in vertices_'[to][1].data.in
       /\ DetachRemoveVertexSucceeds(t, v) =>
            /\ \E i \in 1..Len(vertices_'[v]) : vertices_'[v][i].exp = t
            /\ \A e \in Incident(t, v) :
                 \E i \in 1..Len(edges_'[e]) : edges_'[e][i].exp = t]_vars

\* an edge between two different vertices, inserted by a transaction that
\* committed, and expired together with its source vertex by a later one,
\* the newest version of the target vertex being that transaction's
EdgesDetachedWitness ==
  \E t \in DOMAIN accessors : \E e \in DOMAIN edges_ :
    /\ CanWork(t)
    /\ edges_[e][1].data = EdgeData(0, 1)
    /\ edges_[e][1].cre # t
    /\ edges_[e][1].exp = t
    /\ \E i \in 1..Len(vertices_[0]) : vertices_[0][i].exp = t
    /\ vertices_[1][1].cre = t
    /\ e \notin vertices_[1][1].data.in

\* ---- the WAL and the mutations
\* t's operation of this step ends with SerializationError
RaisesSerializationError(t) ==
  /\ t \in DOMAIN accessors'
  /\ accessors[t].error = "none"
  /\ accessors'[t].error = "SerializationError"

\* the mutation the delta stands for is in the database after the step
MutationDone(delta) ==
  \/ /\ delta.type = "CreateVertex"
     /\ delta.gid \in DOMAIN vertices_'
  \/ /\ delta.type = "CreateEdge"
     /\ delta.gid \in DOMAIN edges_'
     /\ delta.gid \in vertices_'[delta.from][1].data.out
     /\ delta.gid \in vertices_'[delta.to][1].data.in
  \/ /\ delta.type = "RemoveVertex"
     /\ \E i \in 1..Len(vertices_'[delta.gid]) : vertices_'[delta.gid][i].exp = delta.tx
  \/ /\ delta.type = "RemoveEdge"
     /\ \E i \in 1..Len(edges_'[delta.gid]) : edges_'[delta.gid][i].exp = delta.tx

\* C36: the StateDelta of a mutation made through the accessor (InsertVertex,
\* InsertEdge, RemoveVertex, RemoveEdge) is appended to the WAL only after the
\* mutation has succeeded in memory: an operation that ends with
\* SerializationError has appended no delta of a mutation that failed.
DeltaOnlyAfterMutation ==
  [][\A t \in DOMAIN accessors :
       RaisesSerializationError(t) =>
         \A i \in (Len(wal_) + 1)..Len(wal_') : MutationDone(wal_'[i])]_vars

\* ---- after a restart
\* The transaction a client begins on the database db, and what it finds
NextReader(db) == db.counter + 1
PresentVertex(db, g) == FindVertex(EngineBegin(db), NextReader(db), g, FALSE)
PresentEdge(db, e) == FindEdge(EngineBegin(db), NextReader(db), e, FALSE)

\* Recovery ran to its end
Recovered == recovered # <<>> /\ ~recovered[1].fatal

\* The record of vl was inserted by a committed transaction of the live
\* database / removed by one
InsertedCommitted(vl) == Info(DB, vl[Len(vl)].cre) = "committed"
RemovedCommitted(vl) ==
  \E u \in 1..counter_ : Info(DB, u) = "committed" /\ RemovedBy(vl, u)

\* C5: replaying the WAL into an empty graph reproduces every committed
\* mutation: a vertex or edge inserted by a committed transaction (and not
\* removed by one) is present after recovery, and one removed by a
\* committed transaction with RemoveVertex, DetachRemoveVertex or RemoveEdge
\* is absent after recovery.
ReplayReproducesCommitted ==
  Recovered =>
    /\ \A g \in DOMAIN vertices_ :
         /\ (InsertedCommitted(vertices_[g]) /\ ~RemovedCommitted(vertices_[g]))
              => PresentVertex(recovered[1].db, g)
         /\ RemovedCommitted(vertices_[g]) => ~PresentVertex(recovered[1].db, g)
    /\ \A e \in DOMAIN edges_ :
         /\ (InsertedCommitted(edges_[e]) /\ ~RemovedCommitted(edges_[e]))
              => PresentEdge(recovered[1].db, e)
         /\ RemovedCommitted(edges_[e]) => ~PresentEdge(recovered[1].db, e)

\* What the WAL says: u has a delta of this type (on this gid)
Logged(type, u, gid) ==
  \E i \in 1..Len(wal_) :
    wal_[i].type = type /\ wal_[i].tx = u /\ wal_[i].gid = gid

WalCommitted(u) == Logged("TxCommit", u, NONE)
WalBegun == {u \in 1..counter_ : Logged("TxBegin", u, NONE)}

\* C6: after a recovery that ran to its end, every transaction with a TxBegin
\* but no TxCommit in the WAL is aborted and nothing it created is visible
\* to a later transaction, nor does anything it removed go missing; every
\* transaction with a TxCommit is committed and what its deltas created (and
\* no committed transaction's delta removed) is visible, what its deltas
\* removed is not.
UncommittedInvisibleAfterRecovery ==
  Recovered =>
    LET st == recovered[1] IN
    /\ \A u \in WalBegun :
         /\ u \in DOMAIN st.replayed
         /\ Info(st.db, st.replayed[u]) =
              (IF WalCommitted(u) THEN "committed" ELSE "aborted")
    /\ \A g \in DOMAIN st.db.vertices :
         PresentVertex(st.db, g) <=>
           /\ \E u \in WalBegun : WalCommitted(u) /\ Logged("CreateVertex", u, g)
           /\ ~\E u \in WalBegun : WalCommitted(u) /\ Logged("RemoveVertex", u, g)
    /\ \A e \in DOMAIN st.db.edges :
         PresentEdge(st.db, e) <=>
           /\ \E u \in WalBegun : WalCommitted(u) /\ Logged("CreateEdge", u, e)
           /\ ~\E u \in WalBegun : WalCommitted(u) /\ Logged("RemoveEdge", u, e)

\* recovery ran to its end on a WAL with a vertex created by a transaction
\* that has no TxCommit, and a vertex or edge of a transaction that has one
UncommittedInvisibleWitness ==
  /\ Recovered
  /\ \E u \in WalBegun : \E g \in DOMAIN recovered[1].db.vertices :
       ~Ended(u) /\ (Logged("CreateVertex", u, g) \/ Logged("RemoveVertex", u, g))
  /\ \E u \in WalBegun : \E g \in DOMAIN recovered[1].db.vertices :
       /\ WalCommitted(u)
       /\ Logged("CreateVertex", u, g)
       /\ PresentVertex(recovered[1].db, g)

\* ---- the shutdown of a worker
\* a StopWorkerRpc request has been handled: a handler has set the flag
\* under the mutex, whether it has returned its response yet or not
StopHandled ==
  \/ \E th \in Threads : threads[th].pc # "idle" /\ threads[th].set_at # "none"
  \/ \E i \in DOMAIN returned : returned[i].set_at # "none"

\* C38: WaitForShutdown gets past its wait, and returns, only when a
\* StopWorkerRpc handler has set the flag; and once a handler has set it,
\* the call returns in the end, wherever the waiting thread was when the
\* flag was set, before its wait or blocked in it.
WaitForShutdownWaitsForStop ==
  /\ [](waiter \in {"sleep", "return", "returned"} => StopHandled)
  /\ StopHandled ~> (waiter = "returned")

\* the call has returned after a request that was handled before the
\* waiting thread had taken the mutex for its wait, and the handler has
\* returned its response
ShutdownBeforeWaitWitness ==
  /\ waiter = "returned"
  /\ \E i \in DOMAIN returned :
       returned[i].set_at = "lock" /\ returned[i].res = "StopWorkerRes"

\* ---- the timers
\* the process() call, counted from the add, that is to call the handler
FiresAt(n) == IF n >= 1 THEN n ELSE 1

\* C39: a timer added with counter n >= 1 has its handler called once, by
\* the n-th process() call after the add, which takes it out of the set;
\* one added with a counter <= 0 by the first; before that call the
\* handler is not called, so never for a timer removed before it; size()
\* is the number of the added timers neither fired nor removed.
TimersFireOnTime ==
  /\ \A timer \in DOMAIN timer_objects :
       timer_objects[timer].status # "new" =>
         IF timer_objects[timer].age < FiresAt(timer_objects[timer].n)
           THEN /\ timer_objects[timer].handled = 0
                /\ timer_objects[timer].status = "added" => timer \in timers
           ELSE /\ timer_objects[timer].handled = 1
                /\ timer_objects[timer].age = FiresAt(timer_objects[timer].n)
                /\ timer \notin timers
  /\ TimerSetSize =
       Cardinality({timer \in DOMAIN timer_objects :
                      /\ timer_objects[timer].status = "added"
                      /\ timer_objects[timer].age < FiresAt(timer_objects[timer].n)})

\* ---- the properties of a record
\* C40: after emplace(key, value), on a key that was present as on one
\* that was absent, at(key) is not null and points to the new value, and
\* the map is what put(key, new value) would have made of it.
EmplaceReplacesLikePut ==
  \A i \in DOMAIN returned :
    returned[i].op = "emplace" =>
      /\ PropertiesAt(props, returned[i].key) # Nullptr
      /\ PropertiesAt(props, returned[i].key) = returned[i].value
      /\ props = PropertiesPut(returned[i].before, returned[i].key,
                               returned[i].value)

\* ------------------------------------------- recovery of a directory
\* The durability directories recovery is run on: what three runs of the
\* database leave behind (the WAL of the run and the snapshots taken during
\* it), with the damage a crash or a bad disk does to the files.
TxBegin(t) == Delta("TxBegin", t, NONE, NONE, NONE)
TxCommit(t) == Delta("TxCommit", t, NONE, NONE, NONE)
CreateVertex(t, g) == Delta("CreateVertex", t, g, NONE, NONE)
CreateEdge(t, e, from, to) == Delta("CreateEdge", t, e, from, to)
RemoveVertexDelta(t, g) == Delta("RemoveVertex", t, g, NONE, NONE)
RemoveEdgeDelta(t, e) == Delta("RemoveEdge", t, e, NONE, NONE)

\* A snapshot as its transaction tx_id (with snapshot set tx_snapshot) wrote it
SnapshotOf(tx_id, tx_snapshot, vs, es) ==
  [tx_id |-> tx_id, tx_snapshot |-> tx_snapshot, vertices |-> vs, edges |-> es,
   vgen |-> Len(vs), egen |-> Len(es)]

\* Run A: transactions one after the other; 2 and 4 take the snapshots.
RunA ==
  [history |-> <<TxBegin(1), CreateVertex(1, 0), TxCommit(1),
                 TxBegin(2), TxCommit(2),
                 TxBegin(3), CreateVertex(3, 1), TxCommit(3),
                 TxBegin(4), TxCommit(4),
                 TxBegin(5), CreateEdge(5, 0, 0, 1), TxCommit(5)>>,
   snapshots |-> <<SnapshotOf(2, <<>>, <<0>>, <<>>),
                   SnapshotOf(4, <<>>, <<0, 1>>, <<>>)>>]

\* Run B: transaction 1 is active while 2 and 4 take the snapshots.
RunB ==
  [history |-> <<TxBegin(1), CreateVertex(1, 0),
                 TxBegin(2), TxCommit(2),
                 TxBegin(3), CreateVertex(3, 1), TxCommit(3),
                 TxBegin(4), TxCommit(4),
                 TxCommit(1)>>,
   snapshots |-> <<SnapshotOf(2, <<1>>, <<>>, <<>>),
                   SnapshotOf(4, <<1>>, <<>>, <<>>)>>]

\* Run C: edges, removals and a transaction that never commits.
RunC ==
  [history |-> <<TxBegin(1), CreateVertex(1, 0), CreateVertex(1, 1),
                 CreateEdge(1, 0, 0, 1), TxCommit(1),
                 TxBegin(2), TxCommit(2),
                 TxBegin(3), RemoveEdgeDelta(3, 0), RemoveVertexDelta(3, 1),
                 TxCommit(3),
                 TxBegin(4), TxCommit(4),
                 TxBegin(5), CreateVertex(5, 2)>>,
   snapshots |-> <<SnapshotOf(2, <<>>, <<0, 1>>, <<[gid |-> 0, from |-> 0, to |-> 1]>>),
                   SnapshotOf(4, <<>>, <<0>>, <<>>)>>]

Runs == {RunA, RunB, RunC}

Faults == {"none", "magic", "version", "vertex", "edge", "hash"}

\* The snapshot files kept of a run: none, the first, or both; each is
\* intact or damaged.
SnapshotDirs(run) ==
  {<<>>}
  \cup {<<[fault |-> f1] @@ run.snapshots[1]>> : f1 \in Faults}
  \cup {<<[fault |-> f1] @@ run.snapshots[1], [fault |-> f2] @@ run.snapshots[2]>> :
          f1 \in Faults, f2 \in Faults}

\* The history with the delta at position p undecodable (p = 0: none)
Damaged(h, p) == [k \in 1..Len(h) |-> IF k = p THEN Undecodable ELSE h[k]]

\* One WAL file; its name carries the highest transaction id in it
WalFile(h, from, to) ==
  [max_tx |-> Max({h[k].tx : k \in from..to}),
   deltas |-> SubSeq(h, from, to)]

\* The WAL files of a run: no WAL at all, or the history in one file or cut
\* into two after position c, with the delta at position p undecodable.
WalDirs(h) ==
  {<<>>}
  \cup {<<[WalFile(h, 1, Len(h)) EXCEPT !.deltas = Damaged(@, p)]>> :
          p \in 0..Len(h)}
  \cup {<<[WalFile(h, 1, c) EXCEPT !.deltas = Damaged(@, p)],
          [WalFile(h, c + 1, Len(h)) EXCEPT !.deltas = Damaged(@, p - c)]>> :
          c \in 1..(Len(h) - 1), p \in 0..Len(h)}

Dirs ==
  UNION {{[snapshots |-> sn, wal |-> w] : sn \in SnapshotDirs(run),
                                           w \in WalDirs(run.history)} :
         run \in Runs}

InitRecovery ==
  /\ counter_ = 0 /\ active_ = {} /\ clog_ = <<>> /\ store_ = <<>>
  /\ wal_ = <<>> /\ vertices_ = <<>> /\ edges_ = <<>>
  /\ vertex_generator_ = 0 /\ edge_generator_ = 0 /\ counters_ = <<>>
  /\ accessors = <<>>
  /\ recovered = <<>>
  /\ dir \in Dirs
  /\ EngineIdle
  /\ AuxIdle

\* The database starts on the directory: durability::Recover
RecoverDir ==
  /\ recovered = <<>>
  /\ recovered' = <<Recover(dir)>>
  /\ UNCHANGED <<dbVars, accessors, dir, engVars, auxVars>>

NextRecovery == RecoverDir

SpecRecovery == InitRecovery /\ [][NextRecovery]_vars

\* The newest snapshot file is damaged and the one before it is intact
NewestSnapshotFails ==
  /\ Len(dir.snapshots) = 2
  /\ dir.snapshots[2].fault # "none"
  /\ dir.snapshots[1].fault = "none"

\* C7: when the newest snapshot fails validation at any step, recovery goes
\* on with the next older snapshot and finishes with exactly that
\* snapshot's graph (here: when there is no WAL to replay on top of it):
\* re-inserting the older snapshot's gids succeeds, nothing of the failed
\* snapshot is visible and the recovery data is that of the older snapshot.
FailedSnapshotFallsBack ==
  (recovered # <<>> /\ NewestSnapshotFails) =>
    LET st == recovered[1]
        older == dir.snapshots[1]
    IN /\ ~st.fatal
       /\ st.rd.snapshooter_tx_id = older.tx_id
       /\ st.rd.snapshooter_tx_snapshot = older.tx_snapshot
       /\ dir.wal = <<>> =>
            /\ \A g \in DOMAIN st.db.vertices :
                 PresentVertex(st.db, g) <=> g \in Range(older.vertices)
            /\ \A g \in Range(older.vertices) : g \in DOMAIN st.db.vertices
            /\ \A e \in DOMAIN st.db.edges :
                 PresentEdge(st.db, e) <=> \E x \in Range(older.edges) : x.gid = e

\* No delta of the WAL files is undecodable
WalIntact ==
  \A f \in 1..Len(dir.wal) : \A k \in 1..Len(dir.wal[f].deltas) :
    dir.wal[f].deltas[k] # Undecodable

\* C8: in a replay that ran to its end over an intact WAL, a delta is
\* applied if and only if its transaction id is greater than the snapshot
\* transaction's id or is in that transaction's snapshot set; and
\* first_to_recover is the minimum of the snapshot set when it is not empty,
\* the snapshot transaction's id + 1 otherwise.
ReplayAppliesExactlyUnskipped ==
  (recovered # <<>> /\ ~recovered[1].fatal /\ WalIntact) =>
    LET st == recovered[1]
        sn == Range(st.rd.snapshooter_tx_snapshot)
    IN /\ FirstToRecover(st.rd) =
            (IF sn = {} THEN st.rd.snapshooter_tx_id + 1 ELSE Min(sn))
       /\ \A f \in 1..Len(dir.wal) : \A k \in 1..Len(dir.wal[f].deltas) :
            (<<f, k>> \in st.applied) <=>
              \/ dir.wal[f].deltas[k].tx > st.rd.snapshooter_tx_id
              \/ dir.wal[f].deltas[k].tx \in sn

\* C9: an undecodable WAL delta ends the replay: no delta after it in WAL
\* order, in its file or in a later file, is applied, and Recover completes
\* (here: with no snapshot recovered before the replay).
UndecodableDeltaEndsReplay ==
  (recovered # <<>> /\ dir.snapshots = <<>>) =>
    LET st == recovered[1]
    IN \A f \in 1..Len(dir.wal) : \A k \in 1..Len(dir.wal[f].deltas) :
         dir.wal[f].deltas[k] = Undecodable =>
           /\ ~st.fatal
           /\ \A pos \in st.applied :
                pos[1] < f \/ (pos[1] = f /\ pos[2] < k)

====
